---- MODULE Spec2Model ----
(***************************************************************************)
(* Job engine and service engine of pymediaserver: the jobs / services     *)
(* tables, JobContext / ServiceContext (src/job_manager.py,                *)
(* src/service_manager.py), the two dispatchers                            *)
(* (src/job_dispatcher.py, src/service_dispatcher.py) and the file watcher *)
(* (src/services/watchdog.py).                                             *)
(*                                                                         *)
(* Every step of a task is one action: the code between two suspension     *)
(* points (await) of the asyncio task, together with the database          *)
(* statement the task was suspended on.                                    *)
(***************************************************************************)
EXTENDS Integers, Sequences, FiniteSets, TLC

(***************************************************************************)
(* Bounds of the model                                                     *)
(***************************************************************************)
NumSeeds == 2           \* job rows present before the engines start
MaxChildren == 2        \* longest list of child requests a Worker returns
MaxTime == 4            \* the clock stops ticking here

MaxJobs == NumSeeds + MaxChildren     \* cap on the rows of the jobs table

(***************************************************************************)
(* Program values                                                          *)
(***************************************************************************)
NULL == -1              \* an unset Optional[datetime] column
NoParent == 0           \* an unset parent_job_id
ImportTime == 0         \* when src/common/models.py was imported: the
                        \* created_at default is evaluated once, there
MaxConcurrentChoices == {1, 2}   \* values of max_concurrent_jobs tried

Engines == {"e1", "e2"}          \* JobDispatcher instances sharing the store
JobIds == 1..MaxJobs
Times == 0..MaxTime

JobStatus == {"OPEN", "RUNNING", "COMPLETED", "FAILED"}
\* JobType members: two with a Worker in WORKER_MAP, one (CLEAN_UP) without
RegisteredTypes == {"FILE_MATCHER", "FFPROBE"}
WORKER_MAP == RegisteredTypes
JobTypes == RegisteredTypes \cup {"CLEAN_UP"}

NoJob == [job_type |-> "NONE", status |-> "NONE", priority |-> 0,
          created_at |-> NULL, started_at |-> NULL, completed_at |-> NULL,
          error |-> "NULL", parent_job_id |-> NoParent]

\* error strings: str(exc_val) of the errors the model raises
ErrNotOpen == "Job is not in OPEN state"
ErrNoWorker == "No worker registered for job type"
ErrBoom == "boom"
ErrParams == "validation error"

\* ChildJobRequest (= JobDTO): job_type, priority, params (Optional)
ChildSpecs ==
    { [job_type |-> "FFPROBE", priority |-> 10, has_params |-> TRUE],
      [job_type |-> "FILE_MATCHER", priority |-> 0, has_params |-> FALSE] }

SeqsUpTo(S, n) == UNION { [1..k -> S] : k \in 0..n }

VARIABLES
    now,                \* the clock, datetime.now(timezone.utc)
    jobs,               \* the jobs table: id -> row (NoJob: no such row)
    row_cap,            \* rows the jobs table holds at most in this run
    max_concurrent_jobs,\* JobDispatcher.max_concurrent_jobs (per engine)
    running,            \* JobDispatcher.running
    epc,                \* where start()'s loop of each engine is
    active_jobs,        \* JobDispatcher.active_jobs
    semaphore,          \* value of JobDispatcher.semaphore
    batch,              \* the list _get_open_jobs returned to start()
    tpc,                \* position of the _process_job task of (engine, job)
    texc,               \* exception the task's job_manager caught
    treq,               \* child requests the Worker returned to the task
    hist                \* observations of the run (not program state)

jobVars == <<jobs, row_cap, max_concurrent_jobs, running, epc, active_jobs,
             semaphore, batch, tpc, texc, treq, hist>>

Rows == {j \in JobIds : jobs[j] # NoJob}

(***************************************************************************)
(* The service engine: values and state                                    *)
(***************************************************************************)
NumServices == 2        \* rows of the services table
MaxTasks == 2           \* _run_service tasks alive at one time
MaxCommands == 1        \* commands the operator writes in one run

heartbeat_interval == 1 \* ServiceDispatcher.heartbeat_interval, in ticks
StallFactor == 3        \* heartbeat_threshold = now - 3 * heartbeat_interval
MaxConcurrentServicesChoices == {1}   \* values of max_concurrent_services

SvcIds == 1..NumServices
TaskIds == 1..MaxTasks
NoTaskId == 0           \* no entry in active_services for the id

ServiceStatus == {"INACTIVE", "ACTIVE", "FAILED", "SHUTTING_DOWN"}
ServiceCommand == {"NONE", "START", "STOP", "RESTART"}
ServiceTypes == {"WATCH_DOG", "METRICS_COLLECTOR"}
SERVICE_MAP == {"WATCH_DOG"}

ErrNotStartable == "Service is not in a startable state"
ErrNoService == "No service registered for service type"
ErrHeartbeat == "Service heartbeat timeout"

\* a _run_service task that does not exist (never created, or ended)
NoTask == [svc |-> 0, pc |-> "none", cancel |-> FALSE, exc |-> "NULL"]

VARIABLES
    services,           \* the services table: id -> row
    max_concurrent_services, \* ServiceDispatcher.max_concurrent_services
    srunning,           \* ServiceDispatcher.running
    active_services,    \* ServiceDispatcher.active_services: id -> task
    svc_semaphore,      \* value of ServiceDispatcher.semaphore
    rt,                 \* the _run_service tasks: svc, position, a pending
                        \* cancel(), the exception on its way out
    apc, alist,         \* start()'s loop: position, rows of the pass's query
    bpc, blist, bwait,  \* _monitor_commands: position, rows, task awaited
    cpc, clist, stalled_services,   \* _monitor_heartbeats
    shist               \* observations of the run (not program state)

svcVars == <<services, max_concurrent_services, srunning, active_services,
             svc_semaphore, rt, apc, alist, bpc, blist, bwait, cpc, clist,
             stalled_services, shist>>

(***************************************************************************)
(* The file watcher (src/services/watchdog.py): values and state           *)
(***************************************************************************)
Paths == {"a.mkv", "b.mkv", "c.mkv"}   \* files that appear in the directory
\* _calculate_md5 of each file: two of them have the same content
md5 == [p \in Paths |-> IF p = "b.mkv" THEN "h2" ELSE "h1"]
NoHash == "None"        \* "hash": None, as on_created stores it

VARIABLES
    known_files,        \* WatchDog.known_files, shared with the handler
    known_hashes,       \* WatchDog.known_hashes
    new_files,          \* WatchDog.new_files: path -> hash, written by the
                        \* handler thread and by process_iteration
    wpc,                \* where process_iteration is
    wloc,               \* its locals: keys still to visit, indexed_files,
                        \* and whether the dict changed size under the loop
    whist               \* observations of the run (not program state)

watchVars == <<known_files, known_hashes, new_files, wpc, wloc, whist>>

vars == <<now, jobVars, svcVars, watchVars>>

NoFiles == [p \in {} |-> NoHash]
WlocInit == [keys |-> {}, indexed_files |-> {}, changed |-> FALSE]
\* whist: created   paths the OS reported to on_created
\*        accepted  paths on_created put in new_files
\*        skipped   paths _calculate_hashes dropped as a known hash
\*        saved     paths whose child jobs _save_jobs_to_db committed
WhistInit == [created |-> {}, accepted |-> {}, skipped |-> {}, saved |-> {}]

\* no WatchDog in the run
WatchNone ==
    /\ known_files = {}
    /\ known_hashes = {}
    /\ new_files = NoFiles
    /\ wpc = "absent"
    /\ wloc = WlocInit
    /\ whist = WhistInit

\* shist: commands  how many commands the operator wrote
\*        full      a start pass found available_slots <= 0
\*        started   how many _run_service tasks were created
ShistInit == [commands |-> 0, full |-> FALSE, started |-> 0]

ServiceRow(t) ==
    [service_type |-> t, status |-> "INACTIVE", command |-> "START",
     started_at |-> NULL, last_heartbeat_at |-> NULL, error |-> "NULL"]

\* the table as src/main.py leaves it: create_default_services, then
\* start_default_services puts START on every INACTIVE row
ServiceInitCap(pc, caps) ==
    /\ \E n \in 0..NumServices :
          services = [s \in SvcIds |->
                         ServiceRow(IF s <= n THEN "WATCH_DOG"
                                    ELSE "METRICS_COLLECTOR")]
    /\ max_concurrent_services \in caps
    /\ srunning = FALSE
    /\ active_services = [s \in SvcIds |-> NoTaskId]
    /\ svc_semaphore = max_concurrent_services
    /\ rt = [t \in TaskIds |-> NoTask]
    /\ apc = pc /\ alist = <<>>
    /\ bpc = "off" /\ blist = <<>> /\ bwait = NoTaskId
    /\ cpc = "off" /\ clist = <<>> /\ stalled_services = {}
    /\ shist = ShistInit
    /\ WatchNone

ServiceInit(pc) == ServiceInitCap(pc, MaxConcurrentServicesChoices)

\* no ServiceDispatcher in the run
ServiceOff ==
    /\ services = [s \in SvcIds |-> ServiceRow("WATCH_DOG")]
    /\ max_concurrent_services = 1
    /\ srunning = FALSE
    /\ active_services = [s \in SvcIds |-> NoTaskId]
    /\ svc_semaphore = 1
    /\ rt = [t \in TaskIds |-> NoTask]
    /\ apc = "absent" /\ alist = <<>>
    /\ bpc = "off" /\ blist = <<>> /\ bwait = NoTaskId
    /\ cpc = "off" /\ clist = <<>> /\ stalled_services = {}
    /\ shist = ShistInit

ServiceNone == ServiceOff /\ WatchNone

(***************************************************************************)
(* hist: what an observer of the run records.                              *)
(*   seeded      rows present at the start                                 *)
(*   exec[j]     how many times Worker.execute was started on row j        *)
(*   open[e][j]  outcome of engine e's JobContext.__aenter__ on j          *)
(*   claimed_at[j] started_at written by the successful claim              *)
(*   loser_wrote[j] a context whose __aenter__ failed wrote row j          *)
(*   raised[j]   Worker.execute raised                                     *)
(*   returned[j] the list Worker.execute returned (<<>> before it does)    *)
(*   created[j]  create_child_jobs of row j committed                      *)
(*   closed[j]   __aexit__ of the claiming context committed               *)
(*   log[e]      job ids in the order engine e put them in active_jobs     *)
(***************************************************************************)
HistInit(seeds) ==
    [seeded |-> seeds,
     exec |-> [j \in JobIds |-> 0],
     open |-> [e \in Engines |-> [j \in JobIds |-> "none"]],
     claimed_at |-> [j \in JobIds |-> NULL],
     loser_wrote |-> [j \in JobIds |-> FALSE],
     raised |-> [j \in JobIds |-> FALSE],
     returned |-> [j \in JobIds |-> <<>>],
     created |-> [j \in JobIds |-> FALSE],
     closed |-> [j \in JobIds |-> FALSE],
     log |-> [e \in Engines |-> <<>>]]

(***************************************************************************)
(* The jobs table at the start: NumSeeds OPEN rows inserted by other       *)
(* programs, with explicit priority and created_at.                        *)
(***************************************************************************)
SeedRow(t, p, c) ==
    [job_type |-> t, status |-> "OPEN", priority |-> p, created_at |-> c,
     started_at |-> NULL, completed_at |-> NULL, error |-> "NULL",
     parent_job_id |-> NoParent]

SeedRows ==
    <<SeedRow("FILE_MATCHER", 5, 1), SeedRow("FILE_MATCHER", 5, 0),
      SeedRow("FILE_MATCHER", 10, 1), SeedRow("CLEAN_UP", 10, 0)>>

\* row ids carry no meaning: the seeds are taken up to renaming of the ids
SeedChoices ==
    {c \in [1..NumSeeds -> 1..Len(SeedRows)] :
        \A i, k \in 1..NumSeeds : i < k => c[i] <= c[k]}

JobInit(present, cap) ==
    /\ now = ImportTime
    /\ row_cap = cap
    /\ \E c \in SeedChoices :
          jobs = [j \in JobIds |-> IF j <= NumSeeds THEN SeedRows[c[j]]
                                   ELSE NoJob]
    /\ max_concurrent_jobs \in MaxConcurrentChoices
    /\ running = [e \in Engines |-> FALSE]
    /\ epc = [e \in Engines |-> IF e \in present THEN "init" ELSE "absent"]
    /\ active_jobs = [e \in Engines |-> {}]
    /\ semaphore = [e \in Engines |-> max_concurrent_jobs]
    /\ batch = [e \in Engines |-> <<>>]
    /\ tpc = [e \in Engines |-> [j \in JobIds |-> "idle"]]
    /\ texc = [e \in Engines |-> [j \in JobIds |-> "NULL"]]
    /\ treq = [e \in Engines |-> [j \in JobIds |-> <<>>]]
    /\ hist = HistInit(1..NumSeeds)
    /\ ServiceNone

(***************************************************************************)
(* JobDispatcher._get_open_jobs                                            *)
(***************************************************************************)
\* mutant: order_by(Job.priority, Job.created_at), the desc() forgotten
OrderBy_Ascending(a, b) ==
    \/ jobs[a].priority < jobs[b].priority
    \/ /\ jobs[a].priority = jobs[b].priority
       /\ jobs[a].created_at < jobs[b].created_at

\* order_by(desc(Job.priority), Job.created_at): a sorts strictly before b
OrderBy(a, b) ==
    \/ jobs[a].priority > jobs[b].priority
    \/ /\ jobs[a].priority = jobs[b].priority
       /\ jobs[a].created_at < jobs[b].created_at

\* mutant: one slot too many
available_slots_OffByOne(e) ==
    max_concurrent_jobs - Cardinality(active_jobs[e]) + 1

available_slots(e) == max_concurrent_jobs - Cardinality(active_jobs[e])

\* where status = OPEN and id not in active_jobs
Candidates(e) ==
    {j \in Rows : jobs[j].status = "OPEN" /\ j \notin active_jobs[e]}

Min(a, b) == IF a < b THEN a ELSE b

\* The lists the SELECT may return: the first `limit` candidates in the
\* order of OrderBy; rows the order does not separate come in any order.
QueryOpenJobs(e, limit) ==
    LET C == Candidates(e)
        n == Min(limit, Cardinality(C))
    IN { q \in [1..n -> C] :
           /\ \A i, k \in 1..n : i < k => q[i] # q[k] /\ ~OrderBy(q[k], q[i])
           /\ \A x \in C : (\A i \in 1..n : q[i] # x) =>
                              \A i \in 1..n : ~OrderBy(x, q[i]) }

\* mutant: the loop checks active_jobs only, not the status
ValidJobs_NoStatusCheck(e, q) ==
    SelectSeq(q, LAMBDA j : j \notin active_jobs[e])

\* the loop over the rows read: drop those in active_jobs or not OPEN
ValidJobs(e, q) ==
    SelectSeq(q, LAMBDA j : j \notin active_jobs[e] /\ jobs[j].status = "OPEN")

GetOpenJobs(e) ==
    IF available_slots(e) <= 0
    THEN {<<>>}
    ELSE {ValidJobs(e, q) : q \in QueryOpenJobs(e, available_slots(e))}

Range(q) == {q[i] : i \in 1..Len(q)}

(***************************************************************************)
(* JobDispatcher.start: the polling loop                                   *)
(***************************************************************************)
Start(e) ==
    /\ epc[e] = "init"
    /\ running' = [running EXCEPT ![e] = TRUE]
    /\ epc' = [epc EXCEPT ![e] = "poll"]
    /\ UNCHANGED <<svcVars, watchVars, now, jobs, row_cap, max_concurrent_jobs, active_jobs,
                   semaphore, batch, tpc, texc, treq, hist>>

\* mutant: the loop does not look at self.running
Poll_IgnoresRunning(e) ==
    /\ epc[e] = "poll"
    /\ \E q \in GetOpenJobs(e) :
          /\ batch' = [batch EXCEPT ![e] = q]
          /\ tpc' = [tpc EXCEPT ![e] =
                        [j \in JobIds |-> IF j \in Range(q) THEN "queued"
                                          ELSE tpc[e][j]]]
          /\ epc' = [epc EXCEPT ![e] = IF q = <<>> THEN "poll" ELSE "gather"]
    /\ UNCHANGED <<svcVars, watchVars, now, jobs, row_cap, max_concurrent_jobs, running,
                   active_jobs, semaphore, texc, treq, hist>>

\* while self.running: jobs = await self._get_open_jobs(); gather(...)
Poll(e) ==
    /\ epc[e] = "poll"
    /\ running[e]
    /\ \E q \in GetOpenJobs(e) :
          /\ batch' = [batch EXCEPT ![e] = q]
          /\ tpc' = [tpc EXCEPT ![e] =
                        [j \in JobIds |-> IF j \in Range(q) THEN "queued"
                                          ELSE tpc[e][j]]]
          /\ epc' = [epc EXCEPT ![e] = IF q = <<>> THEN "poll" ELSE "gather"]
    /\ UNCHANGED <<svcVars, watchVars, now, jobs, row_cap, max_concurrent_jobs, running,
                   active_jobs, semaphore, texc, treq, hist>>

\* the tasks gather() made run in the order of the list
NextQueued(e) ==
    CHOOSE i \in 1..Len(batch[e]) :
        /\ tpc[e][batch[e][i]] = "queued"
        /\ \A k \in 1..(i - 1) : tpc[e][batch[e][k]] # "queued"

\* _process_job up to its first suspension: active_jobs.add, then the
\* semaphore (taken at once when free), then __aenter__'s SELECT is sent
StartTask(e) ==
    /\ epc[e] = "gather"
    /\ \E i \in 1..Len(batch[e]) : tpc[e][batch[e][i]] = "queued"
    /\ LET j == batch[e][NextQueued(e)] IN
          /\ active_jobs' = [active_jobs EXCEPT ![e] = @ \cup {j}]
          /\ hist' = [hist EXCEPT !.log[e] = Append(@, j)]
          /\ IF semaphore[e] > 0
             THEN /\ semaphore' = [semaphore EXCEPT ![e] = @ - 1]
                  /\ tpc' = [tpc EXCEPT ![e][j] = "enter"]
             ELSE /\ semaphore' = semaphore
                  /\ tpc' = [tpc EXCEPT ![e][j] = "sem"]
    /\ UNCHANGED <<svcVars, watchVars, now, jobs, row_cap, max_concurrent_jobs, running, epc,
                   batch, texc, treq>>

(***************************************************************************)
(* JobContext.__aenter__                                                   *)
(***************************************************************************)
\* mutant: the status check left out
IsClaimable_Always(row) == TRUE

\* if self.job.status != JobStatus.OPEN: raise ValueError
IsClaimable(row) == row.status = "OPEN"

\* mutant: started_at is not written
ClaimedRow_NoStartedAt(row) == [row EXCEPT !.status = "RUNNING"]

\* self.job.status = RUNNING; self.job.started_at = now(); commit
ClaimedRow(row) == [row EXCEPT !.status = "RUNNING", !.started_at = now]

\* mutant: _create_worker does not look the type up
Runnable_NoWorkerCheck(row, valid) == valid

\* _create_worker: job_type in WORKER_MAP; then validate_python in
\* __aenter__ and params_class.model_validate in _process_job accept
\* job.parameters (valid) or raise
Runnable(row, valid) == row.job_type \in WORKER_MAP /\ valid

\* str(exc_val) of the error that keeps the Worker from being invoked
OpenError(row) ==
    IF row.job_type \notin WORKER_MAP THEN ErrNoWorker ELSE ErrParams

\* __aenter__: select(Job).where(id == job_id).with_for_update(), the check,
\* the write and the commit. The row lock makes these one step for every
\* other session: readers see the row as committed before or after it, and
\* writers wait. (A task that waited for the semaphore takes it here, when
\* one is free.) Then the rest of __aenter__ and of _process_job up to the
\* Worker's first suspension: _create_worker raises for a type outside
\* WORKER_MAP. A failed check rolls the session back, and job_manager's
\* except clause calls __aexit__ with the error.
AEnterWith(e, j, valid) ==
    /\ tpc[e][j] \in {"enter", "sem"}
    /\ tpc[e][j] = "sem" => semaphore[e] > 0
    /\ semaphore' = [semaphore EXCEPT ![e] = IF tpc[e][j] = "sem" THEN @ - 1
                                             ELSE @]
    /\ IF IsClaimable(jobs[j])
       THEN /\ jobs' = [jobs EXCEPT ![j] = ClaimedRow(@)]
            /\ IF Runnable(jobs[j], valid)
               THEN /\ tpc' = [tpc EXCEPT ![e][j] = "exec"]
                    /\ texc' = texc
                    /\ hist' = [hist EXCEPT !.open[e][j] = "ok",
                                            !.claimed_at[j] = now,
                                            !.exec[j] = @ + 1]
               ELSE /\ tpc' = [tpc EXCEPT ![e][j] = "exit"]
                    /\ texc' = [texc EXCEPT ![e][j] = OpenError(jobs[j])]
                    /\ hist' = [hist EXCEPT !.open[e][j] = "ok",
                                            !.claimed_at[j] = now]
       ELSE /\ jobs' = jobs
            /\ tpc' = [tpc EXCEPT ![e][j] = "exit"]
            /\ texc' = [texc EXCEPT ![e][j] = ErrNotOpen]
            /\ hist' = [hist EXCEPT !.open[e][j] = "IllegalState"]
    /\ UNCHANGED <<svcVars, watchVars, now, row_cap, max_concurrent_jobs, running, epc, active_jobs,
                   batch, treq>>

\* the row's parameters are what its job type takes
AEnter(e, j) == AEnterWith(e, j, TRUE)

\* the row's parameters fail validation
ParamsInvalid(e, j) == AEnterWith(e, j, FALSE)

(***************************************************************************)
(* JobContext.execute_job, create_child_jobs                               *)
(***************************************************************************)
PendingRequests ==
    LET P == {x \in Engines \X JobIds : tpc[x[1]][x[2]] = "children"}
        RECURSIVE Sum(_)
        Sum(S) == IF S = {} THEN 0
                  ELSE LET x == CHOOSE y \in S : TRUE
                       IN Len(treq[x[1]][x[2]]) + Sum(S \ {x})
    IN Sum(P)

\* mutant: the returned requests are dropped
AfterExecute_SkipChildren(child_jobs) == "exit"

\* if child_jobs: await context.create_child_jobs(child_jobs)
AfterExecute(child_jobs) == IF child_jobs # <<>> THEN "children" ELSE "exit"

\* result = await self.worker.execute(params)
WorkerReturns(e, j) ==
    /\ tpc[e][j] = "exec"
    /\ \E specs \in SeqsUpTo(ChildSpecs, MaxChildren) :
          /\ Cardinality(Rows) + PendingRequests + Len(specs) <= row_cap
          /\ treq' = [treq EXCEPT ![e][j] = specs]
          /\ tpc' = [tpc EXCEPT ![e][j] = AfterExecute(specs)]
          /\ hist' = [hist EXCEPT !.returned[j] = specs]
    /\ UNCHANGED <<svcVars, watchVars, now, jobs, row_cap, max_concurrent_jobs, running, epc,
                   active_jobs, semaphore, batch, texc>>

WorkerRaises(e, j) ==
    /\ tpc[e][j] = "exec"
    /\ texc' = [texc EXCEPT ![e][j] = ErrBoom]
    /\ tpc' = [tpc EXCEPT ![e][j] = "exit"]
    /\ hist' = [hist EXCEPT !.raised[j] = TRUE]
    /\ UNCHANGED <<svcVars, watchVars, now, jobs, row_cap, max_concurrent_jobs, running, epc,
                   active_jobs, semaphore, batch, treq>>

\* mutant: priority left to the column default
ChildJob_DefaultPriority(request, parent) ==
    [job_type |-> request.job_type, status |-> "OPEN",
     priority |-> 0, created_at |-> ImportTime,
     started_at |-> NULL, completed_at |-> NULL, error |-> "NULL",
     parent_job_id |-> parent]

\* Job(job_type=..., parameters=..., status=OPEN, priority=...,
\*     parent_job_id=self.job_id); created_at takes the column default
ChildJob(request, parent) ==
    [job_type |-> request.job_type, status |-> "OPEN",
     priority |-> request.priority, created_at |-> ImportTime,
     started_at |-> NULL, completed_at |-> NULL, error |-> "NULL",
     parent_job_id |-> parent]

\* if request.params is None: continue
Insertable(requests) == SelectSeq(requests, LAMBDA r : r.has_params)

\* the rows one commit of create_child_jobs adds for `requests`
InsertChildren(table, requests, parent) ==
    LET kept == Insertable(requests)
        n == Cardinality({j \in JobIds : table[j] # NoJob})
    IN [j \in JobIds |->
          IF j > n /\ j <= n + Len(kept)
          THEN ChildJob(kept[j - n], parent)
          ELSE table[j]]

CreateChildJobs(e, j) ==
    /\ tpc[e][j] = "children"
    /\ jobs' = InsertChildren(jobs, treq[e][j], j)
    /\ treq' = [treq EXCEPT ![e][j] = <<>>]
    /\ tpc' = [tpc EXCEPT ![e][j] = "exit"]
    /\ hist' = [hist EXCEPT !.created[j] = TRUE]
    /\ UNCHANGED <<svcVars, watchVars, now, row_cap, max_concurrent_jobs, running, epc,
                   active_jobs, semaphore, batch, texc>>

(***************************************************************************)
(* JobContext.__aexit__, then the end of _process_job                      *)
(***************************************************************************)
\* mutant: exc_val ignored
AExitRow_IgnoresError(row, exc_val) ==
    [row EXCEPT !.status = "COMPLETED", !.completed_at = now]

AExitRow(row, exc_val) ==
    IF exc_val # "NULL"
    THEN [row EXCEPT !.status = "FAILED", !.error = exc_val]
    ELSE [row EXCEPT !.status = "COMPLETED", !.completed_at = now]

\* job_manager calls __aexit__ (self.job is set on every path that got
\* the row); finally: active_jobs.discard, and the semaphore is released
Exit(e, j) ==
    /\ tpc[e][j] = "exit"
    /\ jobs' = [jobs EXCEPT ![j] = AExitRow(@, texc[e][j])]
    /\ hist' = IF hist.open[e][j] = "ok"
               THEN [hist EXCEPT !.closed[j] = TRUE]
               ELSE [hist EXCEPT !.loser_wrote[j] = TRUE]
    /\ texc' = [texc EXCEPT ![e][j] = "NULL"]
    /\ tpc' = [tpc EXCEPT ![e][j] = "done"]
    /\ active_jobs' = [active_jobs EXCEPT ![e] = @ \ {j}]
    /\ semaphore' = [semaphore EXCEPT ![e] = @ + 1]
    /\ UNCHANGED <<svcVars, watchVars, now, row_cap, max_concurrent_jobs, running, epc, batch,
                   treq>>

\* gather() returns when every task of the list has ended; the loop sleeps
\* poll_interval and is at its head again
GatherDone(e) ==
    /\ epc[e] = "gather"
    /\ \A j \in Range(batch[e]) : tpc[e][j] = "done"
    /\ tpc' = [tpc EXCEPT ![e] = [j \in JobIds |-> "idle"]]
    /\ batch' = [batch EXCEPT ![e] = <<>>]
    /\ epc' = [epc EXCEPT ![e] = "poll"]
    /\ UNCHANGED <<svcVars, watchVars, now, jobs, row_cap, max_concurrent_jobs, running,
                   active_jobs, semaphore, texc, treq, hist>>

Tick ==
    /\ now < MaxTime
    /\ now' = now + 1
    /\ UNCHANGED <<jobVars, svcVars, watchVars>>

(***************************************************************************)
(* ServiceDispatcher.start and _check_services_to_start                    *)
(***************************************************************************)
Active == {s \in SvcIds : active_services[s] # NoTaskId}

\* a row as a session loaded it: the attributes the passes go by
Loaded(s) == [id |-> s, status |-> services[s].status]

\* the lists a SELECT without ORDER BY may return: `n` of the rows of M
\* (all of them when there are fewer), in any order
SelectRows(M, n) ==
    LET k == Min(n, Cardinality(M))
    IN { [i \in 1..k |-> Loaded(q[i])] :
           q \in {p \in [1..k -> M] : \A i, j \in 1..k : i < j => p[i] # p[j]} }

\* task.cancel(): nothing to cancel once the task has ended
Cancel(tasks, t) ==
    IF t # NoTaskId /\ tasks[t].pc # "none"
    THEN [tasks EXCEPT ![t].cancel = TRUE]
    ELSE tasks

\* a task created by create_task has run up to its first suspension before
\* the creating task is resumed from its own
NoNewTask == \A t \in TaskIds : rt[t].pc # "new"

\* task ids no one holds
FreeTasks ==
    {t \in TaskIds : /\ rt[t].pc = "none"
                     /\ \A s \in SvcIds : active_services[s] # t
                     /\ bwait # t}

\* self.running = True; create_task(_monitor_commands),
\* create_task(_monitor_heartbeats); the loop is entered
ServiceStart ==
    /\ apc = "init"
    /\ srunning' = TRUE
    /\ apc' = "start_query"
    /\ bpc' = "query"
    /\ cpc' = "query"
    /\ UNCHANGED <<now, jobVars, watchVars, services, max_concurrent_services,
                   active_services, svc_semaphore, rt, alist, blist, bwait,
                   clist, stalled_services, shist>>

\* mutant: one slot too many
svc_available_slots_OffByOne ==
    max_concurrent_services - Cardinality(Active) + 1

\* available_slots = self.max_concurrent_services - len(self.active_services)
svc_available_slots == max_concurrent_services - Cardinality(Active)

\* where command = START and status in (INACTIVE, FAILED)
ToStart ==
    {s \in SvcIds : /\ services[s].command = "START"
                    /\ services[s].status \in {"INACTIVE", "FAILED"}}

\* _check_services_to_start up to the result of its SELECT
CheckStartQuery ==
    /\ apc = "start_query"
    /\ srunning
    /\ NoNewTask
    /\ IF svc_available_slots <= 0
       THEN /\ alist' = <<>>
            /\ apc' = "stop_query"
            /\ shist' = [shist EXCEPT !.full = TRUE]
       ELSE /\ \E q \in SelectRows(ToStart, svc_available_slots) :
                  /\ alist' = q
                  /\ apc' = IF q = <<>> THEN "stop_query" ELSE "starting"
            /\ shist' = shist
    /\ UNCHANGED <<now, jobVars, watchVars, services, max_concurrent_services, srunning,
                   active_services, svc_semaphore, rt, bpc, blist, bwait,
                   cpc, clist, stalled_services>>

\* one turn of `for service in services_to_start`: the task is created and
\* entered in active_services, command = NONE is committed
CheckStartOne ==
    /\ apc = "starting"
    /\ NoNewTask
    /\ LET s == alist[1].id IN
          IF active_services[s] # NoTaskId
          THEN UNCHANGED <<services, active_services, rt, shist>>
          ELSE /\ FreeTasks # {}
               /\ LET t == CHOOSE x \in FreeTasks :
                                \A y \in FreeTasks : x <= y
                  IN /\ rt' = [rt EXCEPT ![t] = [svc |-> s, pc |-> "new",
                                                cancel |-> FALSE,
                                                exc |-> "NULL"]]
                     /\ active_services' = [active_services EXCEPT ![s] = t]
               /\ services' = [services EXCEPT ![s].command = "NONE"]
               /\ shist' = [shist EXCEPT !.started = Min(@ + 1, MaxTasks)]
    /\ alist' = Tail(alist)
    /\ apc' = IF Tail(alist) = <<>> THEN "stop_query" ELSE "starting"
    /\ UNCHANGED <<now, jobVars, watchVars, max_concurrent_services, srunning,
                   svc_semaphore, bpc, blist, bwait, cpc, clist,
                   stalled_services>>

(***************************************************************************)
(* _check_services_to_stop                                                 *)
(***************************************************************************)
\* where command = STOP and status = ACTIVE
ToStop ==
    {s \in SvcIds : services[s].command = "STOP" /\ services[s].status = "ACTIVE"}

\* after the pass: sleep(heartbeat_interval), and the loop is at its head
CheckStopQuery ==
    /\ apc = "stop_query"
    /\ NoNewTask
    /\ \E q \in SelectRows(ToStop, NumServices) :
          /\ alist' = q
          /\ apc' = IF q = <<>> THEN "start_query" ELSE "stopping"
    /\ UNCHANGED <<now, jobVars, watchVars, services, max_concurrent_services, srunning,
                   active_services, svc_semaphore, rt, bpc, blist, bwait,
                   cpc, clist, stalled_services, shist>>

\* one turn of `for service in services_to_stop`
CheckStopOne ==
    /\ apc = "stopping"
    /\ LET s == alist[1].id IN
          IF active_services[s] = NoTaskId
          THEN /\ services' = [services EXCEPT ![s].command = "NONE",
                                               ![s].status = "INACTIVE"]
               /\ rt' = rt
          ELSE /\ rt' = Cancel(rt, active_services[s])
               /\ services' = [services EXCEPT ![s].command = "NONE",
                                               ![s].status = "SHUTTING_DOWN"]
    /\ alist' = Tail(alist)
    /\ apc' = IF Tail(alist) = <<>> THEN "start_query" ELSE "stopping"
    /\ UNCHANGED <<now, jobVars, watchVars, max_concurrent_services, srunning,
                   active_services, svc_semaphore, bpc, blist, bwait, cpc,
                   clist, stalled_services, shist>>

(***************************************************************************)
(* _monitor_commands                                                       *)
(***************************************************************************)
ToRestart == {s \in SvcIds : services[s].command = "RESTART"}

MonitorQuery ==
    /\ bpc = "query"
    /\ srunning
    /\ \E q \in SelectRows(ToRestart, NumServices) :
          /\ blist' = q
          /\ bpc' = IF q = <<>> THEN "query" ELSE "restarting"
    /\ UNCHANGED <<now, jobVars, watchVars, services, max_concurrent_services, srunning,
                   active_services, svc_semaphore, rt, apc, alist, bwait,
                   cpc, clist, stalled_services, shist>>

\* service.status = INACTIVE; service.command = START; commit. The session
\* writes the attributes whose value differs from the one it loaded.
RestartRow(row, loaded) ==
    [row EXCEPT !.status = IF loaded.status # "INACTIVE" THEN "INACTIVE" ELSE @,
                !.command = "START"]

\* one turn of `for service in services_to_restart`, up to wait_for when
\* the service is in active_services, to the commit when it is not
MonitorRestartOne ==
    /\ bpc = "restarting"
    /\ LET s == blist[1].id IN
          IF active_services[s] # NoTaskId
          THEN /\ rt' = Cancel(rt, active_services[s])
               /\ bwait' = active_services[s]
               /\ bpc' = "waiting"
               /\ UNCHANGED <<services, blist>>
          ELSE /\ services' = [services EXCEPT ![s] = RestartRow(@, blist[1])]
               /\ blist' = Tail(blist)
               /\ bpc' = IF Tail(blist) = <<>> THEN "query" ELSE "restarting"
               /\ UNCHANGED <<rt, bwait>>
    /\ UNCHANGED <<now, jobVars, watchVars, max_concurrent_services, srunning,
                   active_services, svc_semaphore, apc, alist, cpc, clist,
                   stalled_services, shist>>

\* wait_for(service_task, timeout=5.0) times out: it cancels the task once
\* more and goes on waiting until the task has ended
MonitorWaitTimeout ==
    /\ bpc = "waiting"
    /\ rt[bwait].pc # "none"
    /\ ~rt[bwait].cancel
    /\ rt' = Cancel(rt, bwait)
    /\ UNCHANGED <<now, jobVars, watchVars, services, max_concurrent_services, srunning,
                   active_services, svc_semaphore, apc, alist, bpc, blist,
                   bwait, cpc, clist, stalled_services, shist>>

\* wait_for(service_task, timeout=5.0) is over: the task has ended, before
\* the timeout or after it; active_services.pop, then the row is written
MonitorWaitDone ==
    /\ bpc = "waiting"
    /\ rt[bwait].pc = "none"
    /\ LET s == blist[1].id IN
          /\ active_services' = [active_services EXCEPT ![s] = NoTaskId]
          /\ services' = [services EXCEPT ![s] = RestartRow(@, blist[1])]
    /\ bwait' = NoTaskId
    /\ blist' = Tail(blist)
    /\ bpc' = IF Tail(blist) = <<>> THEN "query" ELSE "restarting"
    /\ UNCHANGED <<now, jobVars, watchVars, max_concurrent_services, srunning,
                   svc_semaphore, rt, apc, alist, cpc, clist,
                   stalled_services, shist>>

(***************************************************************************)
(* _monitor_heartbeats                                                     *)
(***************************************************************************)
heartbeat_threshold == now - StallFactor * heartbeat_interval

\* where status = ACTIVE and (last_heartbeat_at < threshold or it is NULL)
Stalled ==
    {s \in SvcIds : /\ services[s].status = "ACTIVE"
                    /\ \/ services[s].last_heartbeat_at = NULL
                       \/ services[s].last_heartbeat_at < heartbeat_threshold}

HeartbeatQuery ==
    /\ cpc = "query"
    /\ srunning
    /\ stalled_services' = {}
    /\ \E q \in SelectRows(Stalled, NumServices) :
          /\ clist' = q
          /\ cpc' = IF q = <<>> THEN "query" ELSE "marking"
    /\ UNCHANGED <<now, jobVars, watchVars, services, max_concurrent_services, srunning,
                   active_services, svc_semaphore, rt, apc, alist, bpc, blist,
                   bwait, shist>>

\* stalled_services.add; status = FAILED, error = "..."; commit
HeartbeatMarkOne ==
    /\ cpc = "marking"
    /\ LET s == clist[1].id IN
          /\ stalled_services' = stalled_services \cup {s}
          /\ services' = [services EXCEPT ![s].status = "FAILED",
                                          ![s].error = ErrHeartbeat]
    /\ clist' = Tail(clist)
    /\ cpc' = IF Tail(clist) = <<>> THEN "cancel" ELSE "marking"
    /\ UNCHANGED <<now, jobVars, watchVars, max_concurrent_services, srunning,
                   active_services, svc_semaphore, rt, apc, alist, bpc, blist,
                   bwait, shist>>

RECURSIVE CancelAll(_, _)
CancelAll(tasks, S) ==
    IF S = {} THEN tasks
    ELSE LET s == CHOOSE x \in S : TRUE
         IN CancelAll(Cancel(tasks, active_services[s]), S \ {s})

\* for service_id in stalled_services: cancel and pop those in
\* active_services; then sleep(heartbeat_interval)
HeartbeatCancel ==
    /\ cpc = "cancel"
    /\ rt' = CancelAll(rt, stalled_services)
    /\ active_services' = [s \in SvcIds |->
                              IF s \in stalled_services THEN NoTaskId
                              ELSE active_services[s]]
    /\ stalled_services' = {}
    /\ cpc' = "query"
    /\ UNCHANGED <<now, jobVars, watchVars, services, max_concurrent_services, srunning,
                   svc_semaphore, apc, alist, bpc, blist, bwait, clist, shist>>

(***************************************************************************)
(* _run_service, ServiceContext, _service_heartbeat                        *)
(***************************************************************************)
\* finally: self.active_services.pop(service_id, None)
Pop(s) == [active_services EXCEPT ![s] = NoTaskId]

\* _run_service up to its first suspension: the semaphore (taken at once
\* when free), then __aenter__'s SELECT is sent
RunBegin(t) ==
    /\ rt[t].pc = "new"
    /\ ~rt[t].cancel
    /\ IF svc_semaphore > 0
       THEN /\ svc_semaphore' = svc_semaphore - 1
            /\ rt' = [rt EXCEPT ![t].pc = "enter"]
       ELSE /\ svc_semaphore' = svc_semaphore
            /\ rt' = [rt EXCEPT ![t].pc = "sem"]
    /\ UNCHANGED <<now, jobVars, watchVars, services, max_concurrent_services, srunning,
                   active_services, apc, alist, bpc, blist, bwait, cpc, clist,
                   stalled_services, shist>>

\* if status not in [INACTIVE, FAILED]: raise ValueError
IsStartable(row) == row.status \in {"INACTIVE", "FAILED"}

\* status = ACTIVE; started_at = now(); last_heartbeat_at = now(); commit
OpenedRow(row) ==
    [row EXCEPT !.status = "ACTIVE", !.started_at = now,
                !.last_heartbeat_at = now]

\* ServiceContext.__aenter__ under the row lock (a task that waited for the
\* semaphore takes it here), then _create_service; service_manager's except
\* clause gets the ValueError of either
RunOpen(t) ==
    /\ rt[t].pc \in {"enter", "sem"}
    /\ ~rt[t].cancel
    /\ rt[t].pc = "sem" => svc_semaphore > 0
    /\ svc_semaphore' = IF rt[t].pc = "sem" THEN svc_semaphore - 1
                        ELSE svc_semaphore
    /\ LET s == rt[t].svc IN
          IF IsStartable(services[s])
          THEN /\ services' = [services EXCEPT ![s] = OpenedRow(@)]
               /\ rt' = IF services[s].service_type \in SERVICE_MAP
                        THEN [rt EXCEPT ![t].pc = "start"]
                        ELSE [rt EXCEPT ![t].pc = "exit",
                                        ![t].exc = ErrNoService]
          ELSE /\ services' = services
               /\ rt' = [rt EXCEPT ![t].pc = "exit",
                                   ![t].exc = ErrNotStartable]
    /\ UNCHANGED <<now, jobVars, watchVars, max_concurrent_services, srunning,
                   active_services, apc, alist, bpc, blist, bwait, cpc, clist,
                   stalled_services, shist>>

\* execute_service: await self.service.start(self.params) returned
RunStarted(t) ==
    /\ rt[t].pc = "start"
    /\ ~rt[t].cancel
    /\ rt' = [rt EXCEPT ![t].pc = "iter"]
    /\ UNCHANGED <<now, jobVars, watchVars, services, max_concurrent_services, srunning,
                   active_services, svc_semaphore, apc, alist, bpc, blist,
                   bwait, cpc, clist, stalled_services, shist>>

\* service.start or service.process_iteration raised
RunRaises(t) ==
    /\ rt[t].pc \in {"start", "iter"}
    /\ ~rt[t].cancel
    /\ rt' = [rt EXCEPT ![t].pc = "exit", ![t].exc = ErrBoom]
    /\ UNCHANGED <<now, jobVars, watchVars, services, max_concurrent_services, srunning,
                   active_services, svc_semaphore, apc, alist, bpc, blist,
                   bwait, cpc, clist, stalled_services, shist>>

\* _service_heartbeat, alive from __aenter__'s return to the finally of
\* _run_service: context.update_heartbeat()
RunHeartbeat(t) ==
    /\ rt[t].pc \in {"start", "iter", "stopping"}
    /\ services[rt[t].svc].last_heartbeat_at # now
    /\ services' = [services EXCEPT ![rt[t].svc].last_heartbeat_at = now]
    /\ UNCHANGED <<now, jobVars, watchVars, max_concurrent_services, srunning,
                   active_services, svc_semaphore, rt, apc, alist, bpc, blist,
                   bwait, cpc, clist, stalled_services, shist>>

\* CancelledError is raised at the task's suspension point. Before the
\* first step the coroutine never runs; in the loop of execute_service the
\* except clause awaits service.stop(); elsewhere the error leaves through
\* the finally of _run_service. service_manager catches Exception only, so
\* __aexit__ is not called on this path.
RunCancelled(t) ==
    /\ rt[t].cancel
    /\ rt[t].pc \in {"new", "sem", "enter", "start", "iter", "stopping", "exit"}
    /\ LET s == rt[t].svc IN
          CASE rt[t].pc = "new" ->
                  /\ rt' = [rt EXCEPT ![t] = NoTask]
                  /\ UNCHANGED <<active_services, svc_semaphore>>
            [] rt[t].pc = "sem" ->
                  /\ rt' = [rt EXCEPT ![t] = NoTask]
                  /\ active_services' = Pop(s)
                  /\ svc_semaphore' = svc_semaphore
            [] rt[t].pc = "iter" ->
                  /\ rt' = [rt EXCEPT ![t].pc = "stopping", ![t].cancel = FALSE]
                  /\ UNCHANGED <<active_services, svc_semaphore>>
            [] OTHER ->
                  /\ rt' = [rt EXCEPT ![t] = NoTask]
                  /\ active_services' = Pop(s)
                  /\ svc_semaphore' = svc_semaphore + 1
    /\ UNCHANGED <<now, jobVars, watchVars, services, max_concurrent_services, srunning,
                   apc, alist, bpc, blist, bwait, cpc, clist,
                   stalled_services, shist>>

\* service.stop() returned; raise; finally: pop, the semaphore is released
RunStopped(t) ==
    /\ rt[t].pc = "stopping"
    /\ ~rt[t].cancel
    /\ rt' = [rt EXCEPT ![t] = NoTask]
    /\ active_services' = Pop(rt[t].svc)
    /\ svc_semaphore' = svc_semaphore + 1
    /\ UNCHANGED <<now, jobVars, watchVars, services, max_concurrent_services, srunning,
                   apc, alist, bpc, blist, bwait, cpc, clist,
                   stalled_services, shist>>

\* mutant: exc_val ignored
SvcExitRow_IgnoresError(row, exc_val) == [row EXCEPT !.status = "INACTIVE"]

\* ServiceContext.__aexit__ with exc_val
SvcExitRow(row, exc_val) ==
    IF exc_val # "NULL"
    THEN [row EXCEPT !.status = "FAILED", !.error = exc_val]
    ELSE [row EXCEPT !.status = "INACTIVE"]

\* service_manager's except clause: __aexit__(e) (self.service_model is set
\* on every path that got the row); then _run_service's finally
RunExit(t) ==
    /\ rt[t].pc = "exit"
    /\ ~rt[t].cancel
    /\ services' = [services EXCEPT ![rt[t].svc] = SvcExitRow(@, rt[t].exc)]
    /\ rt' = [rt EXCEPT ![t] = NoTask]
    /\ active_services' = Pop(rt[t].svc)
    /\ svc_semaphore' = svc_semaphore + 1
    /\ UNCHANGED <<now, jobVars, watchVars, max_concurrent_services, srunning, apc,
                   alist, bpc, blist, bwait, cpc, clist, stalled_services,
                   shist>>

\* the operator writes a command to a row
OperatorWrites(s, c, max) ==
    /\ shist.commands < max
    /\ services[s].command # c
    /\ services' = [services EXCEPT ![s].command = c]
    /\ shist' = [shist EXCEPT !.commands = @ + 1]
    /\ UNCHANGED <<now, jobVars, watchVars, max_concurrent_services, srunning,
                   active_services, svc_semaphore, rt, apc, alist, bpc, blist,
                   bwait, cpc, clist, stalled_services>>

OperatorCommand(s, c) == OperatorWrites(s, c, MaxCommands)

ServiceStep ==
    \/ ServiceStart
    \/ CheckStartQuery
    \/ CheckStartOne
    \/ CheckStopQuery
    \/ CheckStopOne
    \/ MonitorQuery
    \/ MonitorRestartOne
    \/ MonitorWaitTimeout
    \/ MonitorWaitDone
    \/ HeartbeatQuery
    \/ HeartbeatMarkOne
    \/ HeartbeatCancel
    \/ \E t \in TaskIds :
          \/ RunBegin(t)
          \/ RunOpen(t)
          \/ RunStarted(t)
          \/ RunRaises(t)
          \/ RunHeartbeat(t)
          \/ RunCancelled(t)
          \/ RunStopped(t)
          \/ RunExit(t)
    \/ \E s \in SvcIds, c \in {"START", "STOP", "RESTART"} :
          OperatorCommand(s, c)

JobStep ==
    \/ \E e \in Engines : Start(e) \/ Poll(e) \/ StartTask(e)
                             \/ GatherDone(e)
    \/ \E e \in Engines, j \in JobIds :
          \/ AEnter(e, j)
          \/ WorkerReturns(e, j)
          \/ WorkerRaises(e, j)
          \/ CreateChildJobs(e, j)
          \/ Exit(e, j)

\* two JobDispatchers on one store (N schedulers racing for the same rows);
\* their Workers add one row at most
Init == JobInit(Engines, NumSeeds + 1)
Next == JobStep
Spec == Init /\ [][Next]_vars

\* one JobDispatcher, as src/main.py runs it
InitOne == JobInit({"e1"}, MaxJobs)
SpecOne == InitOne /\ [][Next]_vars

\* one JobDispatcher; rows whose parameters fail validation are among the
\* seeds
NextParams == JobStep \/ \E e \in Engines, j \in JobIds : ParamsInvalid(e, j)
SpecParams == InitOne /\ [][NextParams]_vars

\* one JobDispatcher and the clock
NextClock == JobStep \/ Tick
SpecClock == InitOne /\ [][NextClock]_vars

\* no JobDispatcher in the run
JobNone ==
    /\ now = ImportTime
    /\ row_cap = 0
    /\ jobs = [j \in JobIds |-> NoJob]
    /\ max_concurrent_jobs = 1
    /\ running = [e \in Engines |-> FALSE]
    /\ epc = [e \in Engines |-> "absent"]
    /\ active_jobs = [e \in Engines |-> {}]
    /\ semaphore = [e \in Engines |-> 1]
    /\ batch = [e \in Engines |-> <<>>]
    /\ tpc = [e \in Engines |-> [j \in JobIds |-> "idle"]]
    /\ texc = [e \in Engines |-> [j \in JobIds |-> "NULL"]]
    /\ treq = [e \in Engines |-> [j \in JobIds |-> <<>>]]
    /\ hist = HistInit({})

\* one ServiceDispatcher, the operator and the clock
InitSvc == JobNone /\ ServiceInit("init")
NextSvc == ServiceStep \/ Tick
SpecSvc == InitSvc /\ [][NextSvc]_vars

(***************************************************************************)
(* Cancellation of JobDispatcher.start (src/main.py shutdown:               *)
(* job_task.cancel()). The task is suspended in _get_open_jobs or sleep,   *)
(* or in gather(); cancelling gather() cancels every _process_job task     *)
(* of the batch that has not ended.                                        *)
(***************************************************************************)
\* position of a _process_job task with a CancelledError on its way
CancelledAt(pc) ==
    CASE pc = "queued" -> "c_queued"
      [] pc = "sem" -> "c_sem"
      [] pc = "enter" -> "c_enter"
      [] pc = "exec" -> "c_exec"
      [] pc = "children" -> "c_children"
      [] pc = "exit" -> "c_exit"
      [] OTHER -> pc

CancelledPcs == {"c_queued", "c_sem", "c_enter", "c_exec", "c_children", "c_exit"}

\* job_task.cancel(): CancelledError at the await of start()'s loop
CancelStart(e) ==
    /\ epc[e] \in {"poll", "gather"}
    /\ IF epc[e] = "poll"
       THEN /\ running' = [running EXCEPT ![e] = FALSE]
            /\ epc' = [epc EXCEPT ![e] = "stopped"]
            /\ tpc' = tpc
       ELSE /\ running' = running
            /\ epc' = [epc EXCEPT ![e] = "cancelling"]
            /\ tpc' = [tpc EXCEPT ![e] =
                          [j \in JobIds |-> IF j \in Range(batch[e])
                                            THEN CancelledAt(tpc[e][j])
                                            ELSE tpc[e][j]]]
    /\ UNCHANGED <<svcVars, watchVars, now, jobs, row_cap, max_concurrent_jobs,
                   active_jobs, semaphore, batch, texc, treq, hist>>

\* does a task cancelled at this position hold the semaphore
HoldsSemaphore(pc) == pc \in {"c_enter", "c_exec", "c_children", "c_exit"}

\* mutant: the discard is not in a finally clause
TaskCancelled_NoDiscard(e, j) ==
    /\ tpc[e][j] \in CancelledPcs
    /\ tpc' = [tpc EXCEPT ![e][j] = "done"]
    /\ texc' = [texc EXCEPT ![e][j] = "NULL"]
    /\ treq' = [treq EXCEPT ![e][j] = <<>>]
    /\ active_jobs' = active_jobs
    /\ semaphore' = [semaphore EXCEPT ![e] =
                        IF HoldsSemaphore(tpc[e][j]) THEN @ + 1 ELSE @]
    /\ UNCHANGED <<svcVars, watchVars, now, jobs, row_cap, max_concurrent_jobs, running,
                   epc, batch, hist>>

\* CancelledError raised in _process_job at its suspension point. A task
\* that never ran does nothing. job_manager's `except Exception` does not
\* catch CancelledError and its `else` is not reached: __aexit__ is not
\* called and the row is left as it is. finally: active_jobs.discard
TaskCancelled(e, j) ==
    /\ tpc[e][j] \in CancelledPcs
    /\ tpc' = [tpc EXCEPT ![e][j] = "done"]
    /\ texc' = [texc EXCEPT ![e][j] = "NULL"]
    /\ treq' = [treq EXCEPT ![e][j] = <<>>]
    /\ active_jobs' = [active_jobs EXCEPT ![e] = @ \ {j}]
    /\ semaphore' = [semaphore EXCEPT ![e] =
                        IF HoldsSemaphore(tpc[e][j]) THEN @ + 1 ELSE @]
    /\ UNCHANGED <<svcVars, watchVars, now, jobs, row_cap, max_concurrent_jobs, running,
                   epc, batch, hist>>

\* every task of the batch has ended: gather() raises CancelledError in
\* start(); except asyncio.CancelledError: self.running = False; break
StartCancelled(e) ==
    /\ epc[e] = "cancelling"
    /\ \A j \in Range(batch[e]) : tpc[e][j] = "done"
    /\ running' = [running EXCEPT ![e] = FALSE]
    /\ epc' = [epc EXCEPT ![e] = "stopped"]
    /\ UNCHANGED <<svcVars, watchVars, now, jobs, row_cap, max_concurrent_jobs,
                   active_jobs, semaphore, batch, tpc, texc, treq, hist>>

CancelStep ==
    \/ \E e \in Engines : CancelStart(e) \/ StartCancelled(e)
    \/ \E e \in Engines, j \in JobIds : TaskCancelled(e, j)

\* one JobDispatcher whose start() task may be cancelled
NextCancel == JobStep \/ CancelStep
SpecCancel == InitOne /\ [][NextCancel]_vars

(***************************************************************************)
(* The heartbeat monitor on the clock: _monitor_heartbeats sleeps          *)
(* heartbeat_interval between two SELECTs, _service_heartbeat sleeps       *)
(* heartbeat_interval / 2 between two writes                               *)
(***************************************************************************)
\* the rows the monitor's SELECT returns when it is made at time `at`
StalledAt(at) ==
    {s \in SvcIds : /\ services[s].status = "ACTIVE"
                    /\ \/ services[s].last_heartbeat_at = NULL
                       \/ services[s].last_heartbeat_at <
                              at - StallFactor * heartbeat_interval}

\* every _service_heartbeat alive has written in the running interval: it
\* writes twice in each
HeartbeatsWritten ==
    \A t \in TaskIds :
        rt[t].pc \in {"start", "iter", "stopping"} =>
            services[rt[t].svc].last_heartbeat_at = now

\* sleep(heartbeat_interval) of _monitor_heartbeats is over, and the next
\* turn of its loop is made up to the result of the SELECT
HeartbeatWake ==
    /\ cpc = "query"
    /\ srunning
    /\ now < MaxTime
    /\ HeartbeatsWritten
    /\ now' = now + heartbeat_interval
    /\ stalled_services' = {}
    /\ \E q \in SelectRows(StalledAt(now + heartbeat_interval), NumServices) :
          /\ clist' = q
          /\ cpc' = IF q = <<>> THEN "query" ELSE "marking"
    /\ UNCHANGED <<jobVars, watchVars, services, max_concurrent_services, srunning,
                   active_services, svc_semaphore, rt, apc, alist, bpc, blist,
                   bwait, shist>>

\* one ServiceDispatcher and the operator, the clock moved by the heartbeat
\* monitor's sleep
NextStall == ServiceStep \/ HeartbeatWake
SpecStall == InitSvc /\ [][NextStall]_vars

(***************************************************************************)
(* Shutdown of the ServiceDispatcher: main.shutdown cancels the task that  *)
(* runs start(); its finally clause calls _stop_all_services               *)
(***************************************************************************)
\* task.cancel() for every task in active_services
CancelActive == CancelAll(rt, Active)

\* service_task.cancel() reaches start() at the await of its loop: running =
\* False, break; finally: command_task.cancel(), heartbeat_task.cancel(),
\* then _stop_all_services up to its return (nothing in active_services) or
\* to asyncio.wait
Shutdown ==
    /\ srunning
    /\ apc \in {"start_query", "starting", "stop_query", "stopping"}
    /\ NoNewTask
    /\ srunning' = FALSE
    /\ bpc' = "off"
    /\ cpc' = "off"
    /\ blist' = <<>>
    /\ clist' = <<>>
    /\ bwait' = NoTaskId
    /\ stalled_services' = {}
    /\ alist' = <<>>
    /\ IF Active = {}
       THEN /\ apc' = "stopped"
            /\ rt' = rt
       ELSE /\ apc' = "stop_wait"
            /\ rt' = CancelActive
    /\ UNCHANGED <<now, jobVars, watchVars, services, max_concurrent_services,
                   active_services, svc_semaphore, shist>>

\* asyncio.wait(pending_tasks, timeout=10.0) is over, every task ended or
\* not; self.active_services.clear()
StopWaitDone ==
    /\ apc = "stop_wait"
    /\ active_services' = [s \in SvcIds |-> NoTaskId]
    /\ apc' = "stop_select"
    /\ UNCHANGED <<now, jobVars, watchVars, services, max_concurrent_services, srunning,
                   svc_semaphore, rt, alist, bpc, blist, bwait, cpc, clist,
                   stalled_services, shist>>

\* where status in (ACTIVE, SHUTTING_DOWN)
ToNormalize ==
    {s \in SvcIds : services[s].status \in {"ACTIVE", "SHUTTING_DOWN"}}

\* the rows of a set in ascending order of id, each as the session loaded it
RECURSIVE LoadedRows(_)
LoadedRows(S) ==
    IF S = {} THEN <<>>
    ELSE LET m == CHOOSE x \in S : \A y \in S : x <= y
         IN <<[id |-> m, status |-> services[m].status,
               command |-> services[m].command]>> \o LoadedRows(S \ {m})

\* the result of the SELECT (its order is of no account to the one commit)
StopSelect ==
    /\ apc = "stop_select"
    /\ alist' = LoadedRows(ToNormalize)
    /\ apc' = "stop_commit"
    /\ UNCHANGED <<now, jobVars, watchVars, services, max_concurrent_services, srunning,
                   active_services, svc_semaphore, rt, bpc, blist, bwait, cpc,
                   clist, stalled_services, shist>>

\* for service in active_services: status = INACTIVE, command = NONE; the
\* session writes the attributes whose value differs from the one it loaded
NormalizedRow(row, loaded) ==
    [row EXCEPT !.status = "INACTIVE",
                !.command = IF loaded.command # "NONE" THEN "NONE" ELSE @]

\* one commit for the rows of the SELECT; _stop_all_services returns
StopCommit ==
    /\ apc = "stop_commit"
    /\ services' = [s \in SvcIds |->
                      IF \E i \in 1..Len(alist) : alist[i].id = s
                      THEN NormalizedRow(services[s],
                               alist[CHOOSE i \in 1..Len(alist) :
                                         alist[i].id = s])
                      ELSE services[s]]
    /\ alist' = <<>>
    /\ apc' = "stopped"
    /\ UNCHANGED <<now, jobVars, watchVars, max_concurrent_services, srunning,
                   active_services, svc_semaphore, rt, bpc, blist, bwait, cpc,
                   clist, stalled_services, shist>>

StopStep == Shutdown \/ StopWaitDone \/ StopSelect \/ StopCommit

\* one ServiceDispatcher, the operator and the clock, up to and after the
\* shutdown
NextStop == ServiceStep \/ StopStep \/ Tick
SpecStop == InitSvc /\ [][NextStop]_vars

\* one ServiceDispatcher with a slot for every row (src/main.py gives it 5
\* slots for its 2 default services), on a table of one WATCH_DOG row and
\* one row of another type; the operator and the clock
InitWide ==
    /\ JobNone
    /\ ServiceInitCap("init", {NumServices})
    /\ {s \in SvcIds : services[s].service_type = "WATCH_DOG"} = {1}
SpecWide == InitWide /\ [][NextSvc]_vars

(***************************************************************************)
(* JobDispatcher.start when _get_open_jobs raises                          *)
(***************************************************************************)
\* mutant: the error ends the loop
PollRaises_Dies(e) ==
    /\ epc[e] = "poll"
    /\ running[e]
    /\ running' = [running EXCEPT ![e] = FALSE]
    /\ epc' = [epc EXCEPT ![e] = "stopped"]
    /\ UNCHANGED <<svcVars, watchVars, now, jobs, row_cap, max_concurrent_jobs,
                   active_jobs, semaphore, batch, tpc, texc, treq, hist>>

\* _get_open_jobs raises (the session, the SELECT): except Exception logs
\* and awaits sleep(poll_interval)
PollRaises(e) ==
    /\ epc[e] = "poll"
    /\ running[e]
    /\ epc' = [epc EXCEPT ![e] = "backoff"]
    /\ UNCHANGED <<svcVars, watchVars, now, jobs, row_cap, max_concurrent_jobs, running,
                   active_jobs, semaphore, batch, tpc, texc, treq, hist>>

\* the sleep of the except clause is over: the loop is at its head
BackoffDone(e) ==
    /\ epc[e] = "backoff"
    /\ epc' = [epc EXCEPT ![e] = "poll"]
    /\ UNCHANGED <<svcVars, watchVars, now, jobs, row_cap, max_concurrent_jobs, running,
                   active_jobs, semaphore, batch, tpc, texc, treq, hist>>

\* one JobDispatcher whose fetch may fail
NextErr == JobStep \/ \E e \in Engines : PollRaises(e) \/ BackoffDone(e)
SpecErr == InitOne /\ [][NextErr]_vars

(***************************************************************************)
(* JobDispatcher.stop, and the end of the loop of start                    *)
(***************************************************************************)
\* stop(): self.running = False, from another task, while start() is
\* suspended in its fetch, its gather or its sleep
StopCall(e) ==
    /\ epc[e] \in {"poll", "gather"}
    /\ running[e]
    /\ running' = [running EXCEPT ![e] = FALSE]
    /\ UNCHANGED <<svcVars, watchVars, now, jobs, row_cap, max_concurrent_jobs, epc,
                   active_jobs, semaphore, batch, tpc, texc, treq, hist>>

\* while self.running: is false at the head of the loop, start() returns
LoopEnds(e) ==
    /\ epc[e] = "poll"
    /\ ~running[e]
    /\ epc' = [epc EXCEPT ![e] = "stopped"]
    /\ UNCHANGED <<svcVars, watchVars, now, jobs, row_cap, max_concurrent_jobs, running,
                   active_jobs, semaphore, batch, tpc, texc, treq, hist>>

\* one JobDispatcher that may be stopped, cancelled, or both
NextHalt ==
    \/ JobStep
    \/ CancelStep
    \/ \E e \in Engines : StopCall(e) \/ LoopEnds(e)
SpecHalt == InitOne /\ [][NextHalt]_vars

(***************************************************************************)
(* src/main.py create_default_services, on the services table              *)
(***************************************************************************)
\* no row under the id
NoService ==
    [service_type |-> "NONE", status |-> "NONE", command |-> "NONE",
     started_at |-> NULL, last_heartbeat_at |-> NULL, error |-> "NULL"]

\* the service types of default_services, in the order of the list
default_services == <<"CLEANUP">>

\* select(ServiceModel).where(ServiceModel.service_type == service_type)
WithType(tbl, t) == {s \in SvcIds : tbl[s].service_type = t}

\* mutant: the check for an existing row left out
ExistingService_Never(tbl, t) == FALSE

\* existing_service = result.scalar_one_or_none(); if not existing_service
ExistingService(tbl, t) == WithType(tbl, t) # {}

\* id=uuid.uuid4(): an id no row has
FreshId(tbl) == CHOOSE s \in SvcIds : tbl[s] = NoService

\* the default types the loop finds no row for
MissingDefaults(tbl) ==
    {i \in 1..Len(default_services) : ~ExistingService(tbl, default_services[i])}

\* the loop over default_services from its i-th entry; the rows added are
\* committed together after the loop
RECURSIVE SeedFrom(_, _)
SeedFrom(tbl, i) ==
    IF i > Len(default_services) THEN tbl
    ELSE IF ExistingService(tbl, default_services[i])
         THEN SeedFrom(tbl, i + 1)
         ELSE SeedFrom([tbl EXCEPT ![FreshId(tbl)] =
                           ServiceRow(default_services[i])], i + 1)

\* one call of create_default_services at boot, before any dispatcher
\* exists (the table has room for the rows the call adds)
CreateDefaultServices ==
    /\ apc \in {"boot", "seeded"}
    /\ Cardinality({s \in SvcIds : services[s] = NoService}) >=
           Cardinality(MissingDefaults(services))
    /\ services' = SeedFrom(services, 1)
    /\ apc' = "seeded"
    /\ UNCHANGED <<now, jobVars, watchVars, max_concurrent_services, srunning,
                   active_services, svc_semaphore, rt, alist, bpc, blist,
                   bwait, cpc, clist, stalled_services, shist>>

\* the rows earlier runs left: of any type, status and command, at most one
\* of each default type
SeedServiceRows ==
    {NoService} \cup
    {[ServiceRow(t) EXCEPT !.status = st, !.command = c] :
        t \in ServiceTypes \cup Range(default_services),
        st \in ServiceStatus, c \in ServiceCommand}

InitSeed ==
    /\ JobNone
    /\ services \in [SvcIds -> SeedServiceRows]
    /\ \A t \in Range(default_services) : Cardinality(WithType(services, t)) <= 1
    /\ max_concurrent_services = 1
    /\ srunning = FALSE
    /\ active_services = [s \in SvcIds |-> NoTaskId]
    /\ svc_semaphore = 1
    /\ rt = [t \in TaskIds |-> NoTask]
    /\ apc = "boot" /\ alist = <<>>
    /\ bpc = "off" /\ blist = <<>> /\ bwait = NoTaskId
    /\ cpc = "off" /\ clist = <<>> /\ stalled_services = {}
    /\ shist = ShistInit
    /\ WatchNone

\* the boot of src/main.py up to the seeding, run again and again
NextSeed == CreateDefaultServices
SpecSeed == InitSeed /\ [][NextSeed]_vars

\* one JobDispatcher and the clock, on a table that holds a job with a
\* Worker and a job without one
InitTimed ==
    /\ InitOne
    /\ jobs[1] = SeedRows[1]
    /\ jobs[NumSeeds] = SeedRows[4]
SpecTimed == InitTimed /\ [][NextClock]_vars

(***************************************************************************)
(* JobDispatcher._get_open_jobs on a store whose answer is not trusted     *)
(* (the tests of _get_open_jobs set active_jobs and mock the session)      *)
(***************************************************************************)
\* what session.execute may hand back: at most `limit` of the rows of the
\* table, each once, in any status and in active_jobs or not
StoreAnswers(limit) ==
    {q \in SeqsUpTo(Rows, limit) :
        \A i, k \in 1..Len(q) : i # k => q[i] # q[k]}

\* _get_open_jobs: no query when available_slots <= 0, else the rows of the
\* answer that pass the loop
GetOpenJobsFrom(e) ==
    IF available_slots(e) <= 0
    THEN {<<>>}
    ELSE {ValidJobs(e, q) : q \in StoreAnswers(available_slots(e))}

\* one call of _get_open_jobs; its result is kept in batch
FetchOpenJobs(e) ==
    /\ epc[e] \in {"poll", "fetched"}
    /\ \E q \in GetOpenJobsFrom(e) : batch' = [batch EXCEPT ![e] = q]
    /\ epc' = [epc EXCEPT ![e] = "fetched"]
    /\ UNCHANGED <<svcVars, watchVars, now, jobs, row_cap, max_concurrent_jobs, running,
                   active_jobs, semaphore, tpc, texc, treq, hist>>

\* a dispatcher with any active_jobs, on a table of rows in any status
InitFetch ==
    /\ now = ImportTime
    /\ row_cap = MaxJobs
    /\ \E n \in 1..MaxJobs :
          \E st \in [1..n -> JobStatus] :
             jobs = [j \in JobIds |->
                        IF j <= n
                        THEN [SeedRows[1] EXCEPT !.status = st[j]]
                        ELSE NoJob]
    /\ max_concurrent_jobs \in MaxConcurrentChoices
    /\ running = [e \in Engines |-> e = "e1"]
    /\ epc = [e \in Engines |-> IF e = "e1" THEN "poll" ELSE "absent"]
    /\ \E A \in SUBSET Rows :
          active_jobs = [e \in Engines |-> IF e = "e1" THEN A ELSE {}]
    /\ semaphore = [e \in Engines |-> max_concurrent_jobs]
    /\ batch = [e \in Engines |-> <<>>]
    /\ tpc = [e \in Engines |-> [j \in JobIds |-> "idle"]]
    /\ texc = [e \in Engines |-> [j \in JobIds |-> "NULL"]]
    /\ treq = [e \in Engines |-> [j \in JobIds |-> <<>>]]
    /\ hist = HistInit({})
    /\ ServiceNone

NextFetch == \E e \in Engines : FetchOpenJobs(e)
SpecFetch == InitFetch /\ [][NextFetch]_vars

(***************************************************************************)
(* An operator who writes a second command (STOP, then RESTART while the   *)
(* row is SHUTTING_DOWN), with the clock at rest: the heartbeat monitor    *)
(* finds no stalled row                                                    *)
(***************************************************************************)
MaxCommandsOps == 2

InitOps ==
    /\ InitSvc
    /\ {s \in SvcIds : services[s].service_type = "WATCH_DOG"} = {1}

NextOps ==
    \/ ServiceStart
    \/ CheckStartQuery
    \/ CheckStartOne
    \/ CheckStopQuery
    \/ CheckStopOne
    \/ MonitorQuery
    \/ MonitorRestartOne
    \/ MonitorWaitTimeout
    \/ MonitorWaitDone
    \/ HeartbeatQuery
    \/ \E t \in TaskIds :
          \/ RunBegin(t)
          \/ RunOpen(t)
          \/ RunStarted(t)
          \/ RunRaises(t)
          \/ RunCancelled(t)
          \/ RunStopped(t)
          \/ RunExit(t)
    \/ \E s \in SvcIds, c \in {"START", "STOP", "RESTART"} :
          OperatorWrites(s, c, MaxCommandsOps)
SpecOps == InitOps /\ [][NextOps]_vars

(***************************************************************************)
(* service_manager entered for a row in any state                          *)
(***************************************************************************)
\* rows of the services table in every status, with or without an error and
\* the timestamps of an earlier run
AnyServiceRow ==
    { [service_type |-> ty, status |-> st, command |-> "NONE",
       started_at |-> at, last_heartbeat_at |-> at, error |-> er] :
          ty \in ServiceTypes, st \in ServiceStatus,
          at \in {NULL, ImportTime}, er \in {"NULL", ErrBoom} }

\* one _run_service task has been created for a row of such a table
InitOpen ==
    /\ JobNone
    /\ services \in [SvcIds -> AnyServiceRow]
    /\ max_concurrent_services = NumServices
    /\ srunning = TRUE
    /\ svc_semaphore = max_concurrent_services
    /\ \E s \in SvcIds :
          /\ active_services = [x \in SvcIds |-> IF x = s THEN 1 ELSE NoTaskId]
          /\ rt = [t \in TaskIds |->
                      IF t = 1 THEN [svc |-> s, pc |-> "new",
                                     cancel |-> FALSE, exc |-> "NULL"]
                      ELSE NoTask]
    /\ apc = "start_query" /\ alist = <<>>
    /\ bpc = "off" /\ blist = <<>> /\ bwait = NoTaskId
    /\ cpc = "off" /\ clist = <<>> /\ stalled_services = {}
    /\ shist = ShistInit
    /\ WatchNone

NextOpen ==
    \E t \in TaskIds :
        \/ RunBegin(t)
        \/ RunOpen(t)
        \/ RunStarted(t)
        \/ RunRaises(t)
        \/ RunExit(t)
SpecOpen == InitOpen /\ [][NextOpen]_vars

(***************************************************************************)
(* FileEventHandler.on_created and WatchDog.process_iteration              *)
(***************************************************************************)
\* self.new_files[file_path] = {...}
Put(files, p, h) ==
    [q \in DOMAIN files \cup {p} |-> IF q = p THEN h ELSE files[q]]

\* del self.new_files[file_path]
Del(files, p) == [q \in DOMAIN files \ {p} |-> files[q]]

\* on_created's test, for a file (not a directory) of a watched extension:
\* file_path not in self.known_files
Accepts(p) == p \notin known_files

\* on_created, on the observer's thread: it runs between any two steps of
\* the event loop, and between two turns of a loop over new_files, whose
\* iterator then finds the dict changed in size
OnCreated(p) ==
    /\ wpc # "absent"
    /\ p \notin whist.created
    /\ IF Accepts(p)
       THEN /\ new_files' = Put(new_files, p, NoHash)
            /\ wloc' = [wloc EXCEPT !.changed = @ \/ wpc = "items"]
            /\ whist' = [whist EXCEPT !.created = @ \cup {p},
                                      !.accepted = @ \cup {p}]
       ELSE /\ whist' = [whist EXCEPT !.created = @ \cup {p}]
            /\ UNCHANGED <<new_files, wloc>>
    /\ UNCHANGED <<now, jobVars, svcVars, known_files, known_hashes, wpc>>

\* process_iteration from the end of wait_for (the event, or the timeout of
\* the periodic check) into _calculate_hashes: list(self.new_files.keys()),
\* up to the first await of _calculate_md5. With new_files empty both
\* _calculate_hashes and _process_new_files return at once and the
\* iteration is over.
IterBegin ==
    /\ wpc = "wait"
    /\ DOMAIN new_files # {}
    /\ wpc' = "hash"
    /\ wloc' = [WlocInit EXCEPT !.keys = DOMAIN new_files]
    /\ UNCHANGED <<now, jobVars, svcVars, known_files, known_hashes,
                   new_files, whist>>

\* one turn of the loop of _calculate_hashes: the hash is stored; a file
\* whose hash is known is deleted from new_files. (Files stay readable.)
\* After the last turn _process_new_files begins: with new_files empty it
\* returns [], otherwise its loop starts.
HashOne ==
    /\ wpc = "hash"
    /\ \E p \in wloc.keys :
          LET known == md5[p] \in known_hashes
              files == IF known THEN Del(new_files, p)
                       ELSE Put(new_files, p, md5[p])
              rest == wloc.keys \ {p}
          IN /\ new_files' = files
             /\ whist' = IF known THEN [whist EXCEPT !.skipped = @ \cup {p}]
                         ELSE whist
             /\ IF rest # {}
                THEN /\ wloc' = [wloc EXCEPT !.keys = rest]
                     /\ wpc' = "hash"
                ELSE IF DOMAIN files = {}
                THEN /\ wloc' = WlocInit
                     /\ wpc' = "wait"
                ELSE /\ wloc' = [WlocInit EXCEPT !.keys = DOMAIN files]
                     /\ wpc' = "items"
    /\ UNCHANGED <<now, jobVars, svcVars, known_files, known_hashes>>

\* one step of the iterator of new_files.items() in _process_new_files: it
\* raises RuntimeError when the dict changed size, which ends
\* process_iteration; else the next file gets its FileDTO and its two
\* ChildJobRequests; after the last one _update_db is awaited
ItemNext ==
    /\ wpc = "items"
    /\ IF wloc.changed
       THEN /\ wpc' = "failed"
            /\ wloc' = wloc
       ELSE IF wloc.keys = {}
       THEN /\ wpc' = "update_db"
            /\ wloc' = wloc
       ELSE /\ wpc' = "items"
            /\ \E p \in wloc.keys :
                  wloc' = [wloc EXCEPT !.keys = @ \ {p},
                                       !.indexed_files = @ \cup {p}]
    /\ UNCHANGED <<now, jobVars, svcVars, known_files, known_hashes,
                   new_files, whist>>

\* _update_db with its session, up to await session.commit(): the tracking
\* sets get every indexed file (if file_dto.hash: its hash)
UpdateDb ==
    /\ wpc = "update_db"
    /\ known_files' = known_files \cup wloc.indexed_files
    /\ known_hashes' = known_hashes \cup
          {new_files[p] : p \in {q \in wloc.indexed_files :
                                    new_files[q] # NoHash}}
    /\ wpc' = "commit"
    /\ UNCHANGED <<now, jobVars, svcVars, new_files, wloc, whist>>

\* the commit returned: self.new_files.clear(); return child_jobs; then
\* process_iteration awaits _save_jobs_to_db(child_jobs)
ClearNewFiles ==
    /\ wpc = "commit"
    /\ new_files' = NoFiles
    /\ wpc' = "save"
    /\ UNCHANGED <<now, jobVars, svcVars, known_files, known_hashes, wloc,
                   whist>>

\* _save_jobs_to_db committed the FILE_MATCHER and the FFPROBE job of every
\* indexed file; the iteration is over
SaveJobs ==
    /\ wpc = "save"
    /\ whist' = [whist EXCEPT !.saved = @ \cup wloc.indexed_files]
    /\ wloc' = WlocInit
    /\ wpc' = "wait"
    /\ UNCHANGED <<now, jobVars, svcVars, known_files, known_hashes,
                   new_files>>

\* a started WatchDog: _get_known_files loaded the files table (empty, or
\* one file), the observer is running, process_iteration is at its wait
InitWatch ==
    /\ JobNone
    /\ ServiceOff
    /\ \E K \in {{}, {"a.mkv"}, {"b.mkv"}} :
          /\ known_files = K
          /\ known_hashes = {md5[p] : p \in K}
    /\ new_files = NoFiles
    /\ wpc = "wait"
    /\ wloc = WlocInit
    /\ whist = WhistInit

NextWatch ==
    \/ \E p \in Paths : OnCreated(p)
    \/ IterBegin
    \/ HashOne
    \/ ItemNext
    \/ UpdateDb
    \/ ClearNewFiles
    \/ SaveJobs
SpecWatch == InitWatch /\ [][NextWatch]_vars

(***************************************************************************)
(* The claims                                                              *)
(***************************************************************************)
ChildrenOf(p) == {c \in Rows : jobs[c].parent_job_id = p}
Winners(j) == {e \in Engines : hist.open[e][j] = "ok"}
Losers(j) == {e \in Engines : hist.open[e][j] = "IllegalState"}

\* C1: of the concurrent JobContext.open attempts on one OPEN job exactly one
\* succeeds and the others fail with the illegal-state error; the row is
\* RUNNING with the winner's started_at until the winner closes it, and no
\* failed attempt (its cleanup in job_manager included) writes to the row.
C1_NoDoubleClaim ==
    \A j \in Rows :
        /\ Cardinality(Winners(j)) <= 1
        /\ Losers(j) # {} => Cardinality(Winners(j)) = 1
        /\ ~hist.loser_wrote[j]
        /\ (Winners(j) # {} /\ ~hist.closed[j]) =>
               /\ jobs[j].status = "RUNNING"
               /\ jobs[j].started_at = hist.claimed_at[j]

\* C2: a job's status changes only along OPEN -> RUNNING,
\* RUNNING -> COMPLETED and RUNNING -> FAILED.
C2_Allowed ==
    { <<"NONE", "OPEN">>, <<"OPEN", "RUNNING">>, <<"RUNNING", "COMPLETED">>,
      <<"RUNNING", "FAILED">> }

C2_StatusMonotone ==
    [][\A j \in JobIds :
          jobs[j].status # jobs'[j].status =>
              <<jobs[j].status, jobs'[j].status>> \in C2_Allowed]_vars

\* C3: no job is dispatched again: Worker.execute is started at most once
\* per job row, and at most one task is ever inside it, whatever the
\* schedulers poll after the job left OPEN.
C3_ExecutedAtMostOnce ==
    \A j \in Rows :
        /\ hist.exec[j] <= 1
        /\ Cardinality({e \in Engines : tpc[e][j] \in {"exec", "children"}}) <= 1
        /\ hist.exec[j] = 1 => jobs[j].status # "OPEN"

\* a job was executed and closed, and another scheduler's later attempt on
\* it was refused
C3_Witness ==
    \E j \in Rows : hist.exec[j] = 1 /\ hist.closed[j] /\ Losers(j) # {}

\* C4: when a job whose Worker returned child requests is COMPLETED, its
\* create_child_jobs has committed and the rows it inserts are in the table
\* with parent_job_id = the job; and no row with that parent_job_id is in
\* the table before that commit.
C4_ChildrenBeforeCompleted ==
    \A p \in Rows :
        /\ (jobs[p].status = "COMPLETED" /\ hist.returned[p] # <<>>) =>
               /\ hist.created[p]
               /\ Cardinality(ChildrenOf(p)) = Len(Insertable(hist.returned[p]))
        /\ ChildrenOf(p) # {} => hist.created[p]

C4_Witness ==
    \E p \in Rows : jobs[p].status = "COMPLETED" /\ Cardinality(ChildrenOf(p)) = 2

\* C5 as stated: create_child_jobs inserts exactly one row for each of the
\* n requests the Worker returned.
C5_OneRowPerSpec ==
    \A p \in Rows :
        hist.created[p] => Cardinality(ChildrenOf(p)) = Len(hist.returned[p])

\* a finite set of numbers as the increasing sequence of its elements
RECURSIVE Sorted(_)
Sorted(S) ==
    IF S = {} THEN <<>>
    ELSE LET m == CHOOSE x \in S : \A y \in S : x <= y
         IN <<m>> \o Sorted(S \ {m})

\* C5 amended: create_child_jobs inserts, in one commit, exactly one row for
\* each request whose params is not None, in the order of the list, with
\* status OPEN, parent_job_id = the job, and the request's job_type and
\* priority; before that commit the job has no child row.
C5_OneRowPerSpecWithParams ==
    \A p \in Rows :
        LET kept == Insertable(hist.returned[p])
            kids == Sorted(ChildrenOf(p))
        IN IF hist.created[p]
           THEN /\ Len(kids) = Len(kept)
                /\ \A i \in 1..Len(kids) :
                      /\ (\A e \in Engines : hist.open[e][kids[i]] = "none")
                             => jobs[kids[i]].status = "OPEN"
                      /\ jobs[kids[i]].parent_job_id = p
                      /\ jobs[kids[i]].job_type = kept[i].job_type
                      /\ jobs[kids[i]].priority = kept[i].priority
           ELSE kids = <<>>

\* a list of two requests, one of them without params, was committed
C5_Witness ==
    \E p \in Rows :
        /\ hist.created[p]
        /\ Len(hist.returned[p]) = 2
        /\ Cardinality(ChildrenOf(p)) = 1

\* C6: if Worker.execute raised for a claimed job, the job has no child row,
\* and once its context is closed it is FAILED with the error's description.
C6_WorkerErrorFailsJob ==
    \A j \in Rows :
        hist.raised[j] =>
            /\ ChildrenOf(j) = {}
            /\ ~hist.created[j]
            /\ hist.closed[j] =>
                   jobs[j].status = "FAILED" /\ jobs[j].error = ErrBoom

C6_Witness == \E j \in Rows : hist.raised[j] /\ hist.closed[j]

\* C7: completed_at is set exactly on the COMPLETED and FAILED rows.
C7_CompletedAtIffTerminal ==
    \A j \in Rows :
        jobs[j].completed_at # NULL <=> jobs[j].status \in {"COMPLETED", "FAILED"}

\* C8: an engine never has more than max_concurrent_jobs ids in active_jobs,
\* nor more than that many RUNNING rows it claimed.
ClaimedRunning(e) ==
    {j \in Rows : jobs[j].status = "RUNNING" /\ hist.open[e][j] = "ok"}

C8_ConcurrencyCap ==
    \A e \in Engines :
        /\ Cardinality(active_jobs[e]) <= max_concurrent_jobs
        /\ Cardinality(ClaimedRunning(e)) <= max_concurrent_jobs

\* the cap is reached, with more OPEN rows waiting
C8_Witness ==
    \E e \in Engines :
        /\ max_concurrent_jobs = 1
        /\ Cardinality(active_jobs[e]) = 1
        /\ Cardinality(ClaimedRunning(e)) = 1
        /\ \E j \in Rows : jobs[j].status = "OPEN"

\* C10: the order (priority DESC, created_at ASC), written out
C10_Before(a, b) ==
    \/ jobs[a].priority > jobs[b].priority
    \/ jobs[a].priority = jobs[b].priority /\ jobs[a].created_at < jobs[b].created_at

Pos(q, x) == CHOOSE i \in 1..Len(q) : q[i] = x

\* C10: of two jobs of one poll, the one that is first in (priority DESC,
\* created_at ASC) enters active_jobs and starts first; with
\* max_concurrent_jobs = 1 the seeded jobs are dispatched in that order
\* across the polls.
C10_DispatchOrder ==
    \A e \in Engines :
        LET q == batch[e]
            log == hist.log[e]
        IN /\ \A a, b \in Range(q) :
                 (C10_Before(a, b) /\ tpc[e][b] # "queued") =>
                     /\ a \in Range(log) /\ b \in Range(log)
                     /\ Pos(log, a) < Pos(log, b)
           /\ max_concurrent_jobs = 1 =>
                 \A a, b \in hist.seeded :
                     (C10_Before(a, b) /\ b \in Range(log)) =>
                         a \in Range(log) /\ Pos(log, a) < Pos(log, b)

\* two jobs of one poll, of different priority, have both been started
C10_Witness ==
    \E e \in Engines :
        /\ Len(batch[e]) = 2
        /\ jobs[batch[e][1]].priority > jobs[batch[e][2]].priority
        /\ tpc[e][batch[e][1]] # "queued"
        /\ tpc[e][batch[e][2]] # "queued"

\* C9: active_services never holds more than max_concurrent_services
\* entries, whatever the start pass, the stop pass, the two monitors, the
\* run tasks and the operator do.
C9_ServiceCap == Cardinality(Active) <= max_concurrent_services

\* the cap is reached, a start pass found no slot, and a row is still
\* waiting to be started
C9_Witness ==
    /\ Cardinality(Active) = max_concurrent_services
    /\ shist.full
    /\ apc = "stop_query"
    /\ \E s \in ToStart : active_services[s] = NoTaskId


\* C11: every job a JobContext moved to RUNNING is COMPLETED or FAILED once
\* the _process_job task that claimed it has ended, whether the task ended
\* by itself or was cancelled.
C11_ClosedOnEveryExit ==
    \A e \in Engines, j \in Rows :
        (hist.open[e][j] = "ok" /\ tpc[e][j] \in {"done", "idle"}) =>
            jobs[j].status \in {"COMPLETED", "FAILED"}


\* _run_service tasks that have not ended
LiveTasks(s) == {t \in TaskIds : rt[t].pc # "none" /\ rt[t].svc = s}

\* the engine runs and has nothing left to do: every pass and monitor is
\* at its query, every query is empty and stays so (no row is ACTIVE, so
\* none can stall), no run task is alive and the operator writes no more
Quiescent ==
    /\ srunning
    /\ apc \in {"start_query", "stop_query"} /\ bpc = "query" /\ cpc = "query"
    /\ \A s \in SvcIds : LiveTasks(s) = {} /\ services[s].status # "ACTIVE"
    /\ ToStart = {} /\ ToStop = {} /\ ToRestart = {}
    /\ shist.commands = MaxCommands

\* C12: a service that was started and then told to STOP ends INACTIVE with
\* command NONE while the engine keeps running: once the engine has nothing
\* left to do, no row of a registered service type is still SHUTTING_DOWN.
C12_StopRoundTrip ==
    Quiescent =>
        \A s \in SvcIds :
            services[s].service_type \in SERVICE_MAP =>
                services[s].status # "SHUTTING_DOWN"


\* C13: when a run task that opened its ServiceContext ends by cancellation
\* (in service.start, or after service.stop), ServiceContext.__aexit__ has
\* recorded INACTIVE for the row; the one exception allowed for is a row the
\* heartbeat monitor has failed.
C13_CancelRecordsInactive ==
    [][\A t \in TaskIds :
          (rt[t].pc \in {"start", "stopping"} /\ rt'[t].pc = "none") =>
              \/ services'[rt[t].svc].status = "INACTIVE"
              \/ /\ services'[rt[t].svc].status = "FAILED"
                 /\ services'[rt[t].svc].error = ErrHeartbeat]_vars


\* C14: a started service that stays in process_iteration is FAILED with
\* the heartbeat-timeout error, and out of active_services, once the heartbeat
\* monitor has made its turn 4 x heartbeat_interval after the start
C14_BlockedServiceFailed ==
    \A t \in TaskIds :
        (/\ rt[t].pc = "iter"
         /\ cpc = "query"
         /\ now >= services[rt[t].svc].started_at + 4 * heartbeat_interval) =>
            /\ services[rt[t].svc].status = "FAILED"
            /\ services[rt[t].svc].error = ErrHeartbeat
            /\ active_services[rt[t].svc] = NoTaskId


\* a heartbeat within the threshold
Fresh(s) ==
    /\ services[s].last_heartbeat_at # NULL
    /\ services[s].last_heartbeat_at >= heartbeat_threshold

\* C15: the heartbeat monitor fails the rows that are ACTIVE with a
\* heartbeat older than 3 x heartbeat_interval (or none) and no others: the
\* row it sets to FAILED with the heartbeat-timeout error is stalled when it
\* is written, and the tasks it cancels and takes out of active_services
\* are those of rows it failed
C15_MonitorFailsStalledOnly ==
    [][/\ (cpc = "marking" /\ clist' # clist) =>
            /\ ~Fresh(clist[1].id)
            /\ services'[clist[1].id].status = "FAILED"
            /\ services'[clist[1].id].error = ErrHeartbeat
       /\ (cpc = "cancel" /\ cpc' = "query") =>
            \A s \in stalled_services :
                /\ active_services'[s] = NoTaskId
                /\ active_services[s] # NoTaskId =>
                       \/ rt[active_services[s]].pc = "none"
                       \/ rt'[active_services[s]].cancel]_vars


\* C16: once the shutdown of the ServiceDispatcher has returned, no row is
\* ACTIVE or SHUTTING_DOWN, whatever active_services held when it began
C16_ShutdownTerminality ==
    apc = "stopped" =>
        \A s \in SvcIds : services[s].status \notin {"ACTIVE", "SHUTTING_DOWN"}


\* the run tasks of a service that are in service.start or in the loop of
\* execute_service with no cancellation on its way to them, or in the
\* service.stop() a cancellation led to
Executing(s) ==
    {t \in TaskIds :
        /\ rt[t].svc = s
        /\ \/ rt[t].pc \in {"start", "iter"} /\ ~rt[t].cancel
           \/ rt[t].pc = "stopping"}

\* C17: no service id has two executions in the process at one time
C17_OneExecutionPerService ==
    \A s \in SvcIds : Cardinality(Executing(s)) <= 1

\* C17, second half: the start pass creates no task for an id that is in
\* active_services
C17_NoStartOfActive ==
    [][\A t \in TaskIds :
          (rt[t].pc = "none" /\ rt'[t].pc = "new") =>
              active_services[rt'[t].svc] = NoTaskId]_vars


\* C18: when the engine has nothing left to do (no task, no row ACTIVE, no
\* row any of its queries selects, no further write of the operator), every
\* command the operator wrote has been cleared
C18_CommandCleared ==
    Quiescent => \A s \in SvcIds : services[s].command = "NONE"


\* the engine is between two passes with no row for any of its queries, and
\* every task it holds is in the loop of execute_service
Steady ==
    /\ srunning
    /\ apc \in {"start_query", "stop_query"} /\ bpc = "query" /\ cpc = "query"
    /\ ToStart = {} /\ ToStop = {} /\ ToRestart = {}
    /\ \A t \in TaskIds :
          rt[t].pc # "none" =>
              /\ rt[t].pc = "iter" /\ ~rt[t].cancel
              /\ active_services[rt[t].svc] = t

\* C19: START written a second time, after the engine started the service on
\* the first START (the one start_default_services wrote), leaves the row as
\* the first did: ACTIVE with command NONE once the engine has made its
\* passes
C19_StartIdempotent ==
    Steady =>
        \A s \in SvcIds :
            services[s].status = "ACTIVE" => services[s].command = "NONE"


C21_RestartRewritesRow ==
    [][(/\ bpc \in {"restarting", "waiting"} /\ blist' # blist
        /\ services[blist[1].id].service_type \in SERVICE_MAP) =>
           /\ services'[blist[1].id].status = "INACTIVE"
           /\ services'[blist[1].id].command = "START"]_vars


\* the tasks of an engine that hold a slot of its semaphore
SlotHolders(e) ==
    {j \in JobIds : tpc[e][j] \in {"enter", "exec", "children", "exit"}}

\* C22: with nobody stopping it, a started engine stays running and in its
\* loop whatever the fetch or a job raises, and after the sleep that follows
\* a failed fetch it polls again; the step in which a job fails changes no
\* other task of the batch and not the loop; a job that ended, failed or
\* not, holds no slot and is not in active_jobs, so the rest of the batch
\* and the later polls have their slots
C22_LoopSurvivesErrors ==
    [][\A e \in Engines :
          /\ epc[e] \in {"poll", "gather", "backoff"} =>
                 /\ running'[e]
                 /\ epc'[e] \in {"poll", "gather", "backoff"}
          /\ epc[e] = "backoff" => epc'[e] \in {"backoff", "poll"}
          /\ \A j \in JobIds :
                 (texc[e][j] = "NULL" /\ texc'[e][j] # "NULL") =>
                     /\ running'[e] = running[e]
                     /\ epc'[e] = epc[e]
                     /\ \A k \in JobIds \ {j} : tpc'[e][k] = tpc[e][k]
          /\ epc'[e] # "absent" =>
                 /\ semaphore'[e] + Cardinality(SlotHolders(e))' =
                        max_concurrent_jobs'
                 /\ \A j \in JobIds :
                        tpc'[e][j] \in {"done", "idle"} => j \notin active_jobs'[e]]_vars

C22_Witness ==
    \E e \in Engines, j, k \in JobIds :
        /\ epc[e] = "backoff"
        /\ running[e]
        /\ j # k
        /\ hist.raised[j] /\ hist.closed[j]
        /\ jobs[k].status = "COMPLETED"


\* stop() has been called on the engine, or its task has been cancelled
Halted(e) == epc[e] \in {"cancelling", "stopped"} \/ (epc[e] \in {"poll", "gather"} /\ ~running[e])

\* the step in which the engine's fetch returns a batch
FetchStep(e) == epc[e] = "poll" /\ epc'[e] = "gather"

\* the step in which a task of the engine claims its row
ClaimStep(e, j) == tpc[e][j] \in {"enter", "sem"} /\ jobs[j].status # "RUNNING" /\ jobs'[j].status = "RUNNING"

C24_InFlightJobsFinish ==
    \A e \in Engines :
        /\ \A j \in JobIds : tpc[e][j] \notin {"c_exec", "c_children", "c_exit"}
        /\ epc[e] = "stopped" =>
               \A j \in JobIds :
                   (hist.open[e][j] = "ok" /\ hist.claimed_at[j] # NULL) =>
                       jobs[j].status \in {"COMPLETED", "FAILED"}


\* C25: after a run of the seeding the table holds exactly one row of each
\* default service type, and a run adds or changes no row of a type that
\* had a row before it, however many runs came before
C25_SeedingIdempotent ==
    [][/\ apc' = "seeded" =>
             \A i \in 1..Len(default_services) :
                 Cardinality(WithType(services, default_services[i]))' = 1
       /\ \A t \in ServiceTypes \cup Range(default_services) :
             WithType(services, t) # {} =>
                 /\ WithType(services, t)' = WithType(services, t)
                 /\ \A s \in WithType(services, t) : services'[s] = services[s]
       /\ apc = "seeded" => services' = services]_vars

C25_Witness ==
    /\ apc = "seeded"
    /\ \E s \in SvcIds :
          /\ services[s].service_type = "CLEANUP"
          /\ services[s].status = "ACTIVE"


\* the row is ACTIVE and its run task is alive in execute_service, with no
\* cancellation on its way
LiveRun(s) ==
    /\ services[s].status = "ACTIVE"
    /\ \E t \in TaskIds : /\ active_services[s] = t
                          /\ rt[t].svc = s
                          /\ rt[t].pc \in {"start", "iter"}
                          /\ ~rt[t].cancel

\* C26: while a row stays ACTIVE its last_heartbeat_at never decreases; a
\* service that is ACTIVE with a live run task is not among the rows the
\* heartbeat monitor's SELECT returns, and is not set to FAILED by the
\* monitor
C26_HeartbeatKeepsServiceAlive ==
    [][/\ \A s \in SvcIds :
             (services[s].status = "ACTIVE" /\ services'[s].status = "ACTIVE") =>
                 services'[s].last_heartbeat_at >= services[s].last_heartbeat_at
       /\ (cpc = "query" /\ clist' # <<>>) =>
             \A s \in StalledAt(now)' : ~LiveRun(s)'
       /\ (cpc = "marking" /\ clist' # clist) => ~LiveRun(clist[1].id)]_vars


\* C27: the loop is not held back by the jobs in flight: whenever an
\* engine is running with every task of its last batch started, a job of
\* that batch still executing, a free slot and an OPEN job that is not
\* in active_jobs, the loop is at its poll, not waiting for the batch
C27_PollsWhileJobsRun ==
    \A e \in Engines :
        (/\ running[e]
         /\ epc[e] \in {"poll", "gather"}
         /\ \A j \in Range(batch[e]) : tpc[e][j] # "queued"
         /\ \E j \in JobIds : tpc[e][j] = "exec"
         /\ available_slots(e) > 0
         /\ Candidates(e) # {}) => epc[e] = "poll"


\* C28: a job row has a started_at exactly when its status is RUNNING,
\* COMPLETED or FAILED, and a row with both times has started_at <=
\* completed_at
C28_StartedAtIffClaimed ==
    \A j \in Rows :
        /\ (jobs[j].started_at # NULL) <=>
               (jobs[j].status \in {"RUNNING", "COMPLETED", "FAILED"})
        /\ (jobs[j].started_at # NULL /\ jobs[j].completed_at # NULL) =>
               jobs[j].started_at <= jobs[j].completed_at

C28_Witness ==
    \E j, k \in Rows :
        /\ jobs[j].status = "COMPLETED"
        /\ jobs[j].started_at # NULL
        /\ jobs[j].started_at < jobs[j].completed_at
        /\ jobs[k].status = "FAILED"
        /\ jobs[k].started_at # NULL


\* C29: a job row carries an error string only when its status is FAILED
C29_ErrorOnlyOnFailed ==
    \A j \in Rows : jobs[j].error # "NULL" => jobs[j].status = "FAILED"


\* C30: every row inserted by create_child_jobs has a created_at that is
\* not earlier than the started_at of its parent
C30_ChildCreatedAfterParentStart ==
    \A j \in Rows :
        jobs[j].parent_job_id # NoParent =>
            jobs[j].created_at >= jobs[jobs[j].parent_job_id].started_at


Max0(n) == IF n < 0 THEN 0 ELSE n

\* C31: the list a poll returns holds only rows that are OPEN and not in
\* active_jobs, has at most max_concurrent_jobs - |active_jobs| entries, and
\* is empty when active_jobs is full, whatever rows the store handed back
C31_CandidatesValidated ==
    \A e \in Engines :
        epc[e] = "fetched" =>
            /\ \A i \in 1..Len(batch[e]) :
                  /\ jobs[batch[e][i]].status = "OPEN"
                  /\ batch[e][i] \notin active_jobs[e]
            /\ Len(batch[e]) <= Max0(max_concurrent_jobs - Cardinality(active_jobs[e]))
            /\ Cardinality(active_jobs[e]) >= max_concurrent_jobs => batch[e] = <<>>

C31_Witness ==
    \E e \in Engines :
        /\ epc[e] = "fetched"
        /\ batch[e] # <<>>
        /\ active_jobs[e] # {}
        /\ \E j \in Rows : jobs[j].status # "OPEN" /\ j \notin active_jobs[e]


\* a _process_job task that has begun and not ended
Processing(e, j) ==
    tpc[e][j] \in {"sem", "enter", "exec", "children", "exit",
                   "c_sem", "c_enter", "c_exec", "c_children", "c_exit"}

\* C32: an id is in active_jobs exactly while its _process_job task is
\* running, whichever way the task ends; an engine whose tasks have all
\* ended has an empty active_jobs
C32_ActiveWhileProcessing ==
    \A e \in Engines :
        /\ \A j \in JobIds : j \in active_jobs[e] <=> Processing(e, j)
        /\ (\A j \in JobIds : ~Processing(e, j)) => active_jobs[e] = {}

C32_Witness ==
    \E e \in Engines, j, k \in JobIds :
        /\ epc[e] = "stopped"
        /\ active_jobs[e] = {}
        /\ hist.raised[j]
        /\ hist.claimed_at[k] # NULL /\ jobs[k].status = "RUNNING"


\* a step of the start pass, the stop pass or the restart monitor for row s
PassActsOn(s) ==
    \/ /\ apc \in {"starting", "stopping"}
       /\ alist # <<>> /\ alist[1].id = s
       /\ alist' # alist
    \/ /\ bpc \in {"restarting", "waiting"}
       /\ blist # <<>> /\ blist[1].id = s
       /\ <<bpc, blist>>' # <<bpc, blist>>

\* C33: while a row is SHUTTING_DOWN, the passes that act on commands leave
\* its status as it is, cancel no task and start none for it
C33_ShuttingDownIgnoresCommands ==
    [][\A s \in SvcIds :
          (services[s].status = "SHUTTING_DOWN" /\ PassActsOn(s)) =>
              /\ services'[s].status = "SHUTTING_DOWN"
              /\ rt' = rt
              /\ active_services' = active_services]_vars


\* C34: a service row carries an error only while its status is FAILED (a
\* FAILED service that is started again and reaches ACTIVE has no error)
C34_ErrorOnlyOnFailedService ==
    \A s \in SvcIds :
        services[s].error # "NULL" => services[s].status = "FAILED"


\* the Worker of job j was never invoked and j has no child row
NeverExecuted(j) ==
    /\ hist.exec[j] = 0
    /\ hist.returned[j] = <<>>
    /\ ~hist.raised[j]
    /\ ~hist.created[j]
    /\ \A k \in Rows : jobs[k].parent_job_id # j

\* C35: a job whose type has no Worker, or whose parameters fail validation,
\* is claimed and ends FAILED with the error of the failed open; its Worker
\* is never invoked, it gets no child rows, and the loop keeps running
C35_UnrunnableJobFails ==
    [][\A j \in JobIds :
          /\ (j \in Rows /\ jobs[j].job_type \notin WORKER_MAP) =>
                /\ NeverExecuted(j)'
                /\ hist'.closed[j] =>
                      /\ jobs'[j].status = "FAILED"
                      /\ jobs'[j].error = ErrNoWorker
          /\ \A e \in Engines :
                (tpc'[e][j] = "exit" /\ texc'[e][j] \in {ErrNoWorker, ErrParams})
                    => /\ hist'.claimed_at[j] # NULL
                       /\ jobs'[j].status = "RUNNING"
                       /\ NeverExecuted(j)'
          /\ \A e \in Engines :
                (/\ tpc[e][j] = "exit"
                 /\ texc[e][j] \in {ErrNoWorker, ErrParams}
                 /\ tpc'[e][j] # "exit")
                    => /\ jobs'[j].status = "FAILED"
                       /\ jobs'[j].error = texc[e][j]
                       /\ NeverExecuted(j)'
                       /\ running'[e]
                       /\ epc'[e] = "gather"]_vars

\* both kinds of job have ended FAILED, and another job of the run COMPLETED
C35_Witness ==
    /\ \E j \in Rows : jobs[j].status = "FAILED" /\ jobs[j].error = ErrParams
    /\ \E j \in Rows : jobs[j].status = "FAILED" /\ jobs[j].error = ErrNoWorker
    /\ \E j \in Rows : jobs[j].status = "COMPLETED"


\* C36: a run task cancelled at a suspension point of execute_service, in
\* service.start or in the loop, goes through service.stop() before the
\* cancellation leaves execute_service
C36_StopCalledOnCancel ==
    [][\A t \in TaskIds :
          (/\ rt[t].pc \in {"start", "iter"}
           /\ rt[t].cancel
           /\ rt'[t] # rt[t]) => rt'[t].pc = "stopping"]_vars


\* the columns ServiceContext writes
OpenColumns(row) ==
    <<row.status, row.error, row.started_at, row.last_heartbeat_at>>

\* C37: ServiceContext.__aenter__ on a row that is ACTIVE or SHUTTING_DOWN
\* fails with the not-startable error, and neither it nor the cleanup of
\* service_manager that follows changes status, error, started_at or
\* last_heartbeat_at of the row
C37_FailedOpenLeavesRow ==
    [][\A t \in TaskIds :
          /\ (/\ rt[t].pc \in {"enter", "sem"}
              /\ rt'[t] # rt[t]
              /\ ~rt[t].cancel
              /\ services[rt[t].svc].status \in {"ACTIVE", "SHUTTING_DOWN"})
                => /\ rt'[t].pc = "exit"
                   /\ rt'[t].exc = ErrNotStartable
                   /\ OpenColumns(services'[rt[t].svc])
                         = OpenColumns(services[rt[t].svc])
          /\ (/\ rt[t].pc = "exit"
              /\ rt[t].exc = ErrNotStartable
              /\ rt'[t].pc # "exit"
              /\ ~rt[t].cancel)
                => OpenColumns(services'[rt[t].svc])
                      = OpenColumns(services[rt[t].svc])]_vars


\* C38: a run task that ends removes no entry of active_services but its
\* own: the entry of a newer task started for the same service id stays
C38_ExitRemovesOwnEntryOnly ==
    [][\A t \in TaskIds :
          (rt[t].pc # "none" /\ rt'[t].pc = "none") =>
              \A s \in SvcIds :
                  active_services[s] # t =>
                      active_services'[s] = active_services[s]]_vars


\* C39: an entry the handler thread put in new_files leaves new_files only
\* as a file whose child jobs are being created or as a file dropped for its
\* known hash: the clear at the end of an iteration removes no entry that
\* the iteration did not process
C39_NoEventLostByClear ==
    [][\A p \in Paths :
          (p \in DOMAIN new_files /\ p \notin DOMAIN new_files') =>
              \/ p \in wloc'.indexed_files
              \/ p \in whist'.skipped]_vars

====
